---- MODULE Spec2Model ----
(***************************************************************************)
(* Courgette: the validator (src/validator.js), the compiler               *)
(* (src/compiler.js) and the validation worker, as state machines.         *)
(*                                                                         *)
(* A document is a sequence of lines.  A line is a record                  *)
(*   [indent |-> number of leading spaces, tab |-> whether it holds a tab, *)
(*    toks |-> the whitespace-separated words of line.trim()]              *)
(* so that `trimmed.startsWith('Scenario:')` is `toks[1] = "Scenario:"`,   *)
(* `trimmed.split(/\s+/)` is `toks`, and a regular expression over the     *)
(* trimmed text is a pattern over the words.                               *)
(***************************************************************************)
EXTENDS Integers, Sequences, FiniteSets, TLC

VARIABLES
    \* validateCourgette (validator.js)
    lines,               \* text.split('\n')
    pc,                  \* position of the running call
    idx,                 \* number of lines the second pass has handled
    currentBlock,        \* "none" (null), "scenario", "definition", "schedule"
    blockStartLine,
    hasConditions,
    hasOutcomes,
    expectingListItems,
    definitions,
    schedules,
    errors,
    \* compileToOpenFisca (compiler.js)
    courgette,           \* courgette.split('\n')
    today,               \* what new Date().toLocaleDateString('en-AU') returns now
    cpc,                 \* position of the running call
    cidx,                \* number of lines the parse loop has handled
    scenarios,
    currentScenario,
    currentSchedule,
    variables,
    conditions,
    outcomes,
    inConditions,
    scheduleMap,         \* the Map `schedules`
    output,              \* the returned text, as its declarations in order
    results,             \* what the calls made so far returned
    \* the validation worker (validator.js 582-587)
    inbox,               \* the messages posted to the worker and not yet handled
    posted,              \* the number of messages posted so far
    replies,             \* the messages the worker posted back, with their requests
    \* the editor page (editor.js)
    editorText,          \* deltaToCourgette(quill.getContents()) as it is now
    edits,               \* the number of text-change events so far
    updateTimer,         \* the handle of the last setTimeout, 0 before the first
    timers,              \* the handles of the timeouts that are pending
    outbox,              \* the worker's messages the page has not yet handled
    applied,             \* what the page's message listener has shown, in order
    wordCount,           \* the number the word count element shows
    \* guessVariableType (compiler.js)
    guessName,           \* the argument `variable` of the call
    guessed

valVars == <<lines, pc, idx, currentBlock, blockStartLine, hasConditions,
             hasOutcomes, expectingListItems, definitions, schedules, errors>>

compVars == <<courgette, today, cpc, cidx, scenarios, currentScenario,
              currentSchedule, variables, conditions, outcomes, inConditions,
              scheduleMap, output, results>>

workerVars == <<inbox, posted, replies, editorText, edits, updateTimer, timers,
               outbox, applied, wordCount>>

guessVars == <<guessName, guessed>>

vars == <<valVars, compVars, workerVars, guessVars>>

\* the parts of the state that a specification about another part leaves out
ValidatorUnused ==
    /\ lines = <<>> /\ pc = "unused" /\ idx = 0 /\ currentBlock = "none"
    /\ blockStartLine = -1 /\ hasConditions = FALSE /\ hasOutcomes = FALSE
    /\ expectingListItems = FALSE /\ definitions = {} /\ schedules = {}
    /\ errors = <<>>

CompilerUnused ==
    /\ courgette = <<>> /\ today = "" /\ cpc = "unused" /\ cidx = 0
    /\ scenarios = <<>> /\ currentScenario = <<>> /\ currentSchedule = <<>>
    /\ variables = <<>> /\ conditions = <<>> /\ outcomes = <<>>
    /\ inConditions = TRUE /\ scheduleMap = <<>> /\ output = <<>>
    /\ results = <<>>

EditorUnused ==
/\ editorText = <<>> /\ edits = 0 /\ updateTimer = 0 /\ timers = {}
    /\ outbox = <<>> /\ applied = <<>> /\ wordCount = 0

WorkerUnused == inbox = <<>> /\ posted = 0 /\ replies = <<>> /\ EditorUnused

GuessUnused == guessName = <<>> /\ guessed = <<>>

----------------------------------------------------------------------------
(* Bounds of the model *)

MaxLines == 3

----------------------------------------------------------------------------
(* Words and lines *)

L(ts) == [indent |-> 0, tab |-> FALSE, toks |-> ts]

RECURSIVE SeqSum(_)
SeqSum(s) == IF s = <<>> THEN 0 ELSE Head(s) + SeqSum(Tail(s))

Last(s) == s[Len(s)]

\* s.endsWith(t) over words
EndsWith(s, t) ==
    /\ Len(s) >= Len(t)
    /\ SubSeq(s, Len(s) - Len(t) + 1, Len(s)) = t

\* words that contain the letters "is" (String.includes, after toLowerCase)
ContainsIs(w) == w \in {"is", "Is", "IS", "is_student", "is_couple", "this"}

\* words that contain one of the code operators
ContainsCodeOp(w) == w \in {"==", "!=", "<=", ">=", "<", ">"}

\* /^[a-zA-Z_][a-zA-Z0-9_]*$/
IsIdentifier(w) ==
    w \in {"age", "income", "foo", "bar", "x", "studying", "is_student",
           "is_couple", "any", "of", "these", "are", "the", "rate", "is",
           "determined", "by", "eligible", "between", "and", "N", "M",
           "payment", "reduces", "cents", "per", "dollar", "over",
           "fortnight", "true", "single"}

\* a word whose last character is a word character (\w)
EndsInWordChar(w) == IsIdentifier(w) \/ w \in {"5", "16", "24"}

\* number of " and ' characters in a word
QuoteCount(w) ==
    CASE w \in {"\"a\"", "'a'"} -> 2
      [] w \in {"\"a", "'a", "a\""} -> 1
      [] OTHER -> 0

\* a number >= 1000 written with thousands separators and no $ before it
BareThousands(w) == w \in {"5,767", "1,000"}

\* /^[A-Z]/
StartsWithCapital(w) == w \in {"S", "N", "M", "D", "Age", "FTB"}

----------------------------------------------------------------------------
(* Diagnostics *)

Diag(line, severity, message, arg) ==
    [line |-> line, severity |-> severity, message |-> message, arg |-> arg]

MsgTabs          == "Use spaces instead of tabs for indentation"
MsgMissing       == "Scenario missing outcome statements (Then...)"
MsgScenarioName  == "Scenario name is required"
MsgScenarioCap   == "Scenario names should start with a capital letter"
MsgDefinitionName == "Definition term is required"
MsgScheduleName  == "Schedule name is required"
MsgOrFirst       == "Or cannot be used before any conditions"
MsgListItem      == "List items must follow a group declaration"
MsgThenFirst     == "Outcomes (Then) must follow conditions (When/Given)"
MsgExpected      == "Expected When, Given, And, Or, Then, or list item (-)"
MsgEntryFormat   == "Invalid schedule entry format"
MsgEntryAmount   == "Invalid amount format"
MsgEntryExpected == "Expected schedule entry starting with When or Note:"
MsgNoComparison  == "Condition missing comparison"
MsgBetween       == "Invalid between syntax"
MsgQuotes        == "Unmatched quotes in condition"
MsgMoney         == "Consider using $ for monetary amounts"
MsgNoSchedule    == "Schedule not defined"
MsgUnknownOutcome == "Unrecognised outcome format"

----------------------------------------------------------------------------
(* Word patterns: a regular expression  w1\s+w2\s+...  with the /i flag *)

Lower(w) ==
    CASE w \in {"Is", "IS"} -> "is"
      [] w = "True" -> "true"
      [] w = "Between" -> "between"
      [] w = "AND" -> "and"
      [] w = "NO" -> "no"
      [] w = "MORE" -> "more"
      [] w = "THAN" -> "than"
      [] OTHER -> w

\* the words pat occur in o from position i on
MatchAt(o, i, pat) ==
    /\ i >= 1
    /\ i + Len(pat) - 1 <= Len(o)
    /\ \A k \in 1..Len(pat) : Lower(o[i + k - 1]) = pat[k]

\* \$?[\d,._]+ at the start of a word
IsAmountWord(w) ==
    w \in {"$1000", "1000", "$200", "200", "$100", "100", "$0", "$5,767",
           "5,767", "1,000", "$350.50", "$1,,0", "$.", "5", "16", "24",
           "50", "150", "400"}

\* /^\d+(?:[,._]\d+)*(?:\.\d+)?$/ on the amount without its $
AmountFormatOk(w) == IsAmountWord(w) /\ w \notin {"$1,,0", "$."}

\* /^\d+$/
IsDigits(w) == w \in {"5", "16", "24", "25", "50", "150", "100", "200", "400", "1000"}

\* parseInt / parseFloat of a word, after removing $ , and _
Num(w) ==
    CASE w \in {"$0"} -> 0
      [] w = "5" -> 5
      [] w = "16" -> 16
      [] w = "24" -> 24
      [] w = "25" -> 25
      [] w = "50" -> 50
      [] w \in {"100", "$100"} -> 100
      [] w = "150" -> 150
      [] w \in {"200", "$200"} -> 200
      [] w = "400" -> 400
      [] w \in {"1000", "$1000", "1,000"} -> 1000
      [] w \in {"5,767", "$5,767"} -> 5767
      [] OTHER -> 0

----------------------------------------------------------------------------
(* validateCondition: the diagnostics of one condition phrase *)

hasNaturalOp(condition) == \E i \in DOMAIN condition : ContainsIs(condition[i])

hasCodeOp(condition) == \E i \in DOMAIN condition : ContainsCodeOp(condition[i])

hasBetween(condition) ==
    \E i \in DOMAIN condition : Lower(condition[i]) = "between"

isStandaloneBoolean(condition) ==
    Len(condition) = 1 /\ IsIdentifier(condition[1])

\* /(\w+)\s+between\s+(.+?)\s+and\s+(.+)/i
betweenMatch(condition) ==
    \E i, j \in DOMAIN condition :
        /\ i >= 2
        /\ EndsInWordChar(condition[i - 1])
        /\ Lower(condition[i]) = "between"
        /\ j >= i + 2
        /\ Lower(condition[j]) = "and"
        /\ j < Len(condition)

RECURSIVE MoneyWarnings(_, _)
MoneyWarnings(condition, lineNum) ==
    IF condition = <<>> THEN <<>>
    ELSE (IF BareThousands(Head(condition))
          THEN <<Diag(lineNum, "warning", MsgMoney, <<Head(condition)>>)>>
          ELSE <<>>)
         \o MoneyWarnings(Tail(condition), lineNum)

validateCondition(condition, lineNum) ==
    IF /\ ~hasNaturalOp(condition)
       /\ ~hasCodeOp(condition)
       /\ ~hasBetween(condition)
       /\ ~isStandaloneBoolean(condition)
       /\ condition # <<>>
    THEN <<Diag(lineNum, "error", MsgNoComparison, <<>>)>>
    ELSE (IF hasBetween(condition) /\ ~betweenMatch(condition)
          THEN <<Diag(lineNum, "error", MsgBetween, <<>>)>>
          ELSE <<>>)
         \o (IF SeqSum([i \in DOMAIN condition |-> QuoteCount(condition[i])]) % 2 # 0
             THEN <<Diag(lineNum, "error", MsgQuotes, <<>>)>>
             ELSE <<>>)
         \o MoneyWarnings(condition, lineNum)

----------------------------------------------------------------------------
(* validateOutcome: the diagnostics of one outcome phrase *)

\* /\w+\s*=\s*true/i, /\w+\s+is\s+(eligible|yes|true)/i
hasEligibility(outcome) ==
    \E i \in DOMAIN outcome :
        /\ EndsInWordChar(outcome[i])
        /\ \/ MatchAt(outcome, i + 1, <<"=", "true">>)
           \/ MatchAt(outcome, i + 1, <<"is", "eligible">>)
           \/ MatchAt(outcome, i + 1, <<"is", "yes">>)
           \/ MatchAt(outcome, i + 1, <<"is", "true">>)

\* the first word of the phrase that holds an amount: outcome.match(/\$?([\d,._]+)/)
FirstAmount(outcome) ==
    LET S == {i \in DOMAIN outcome : IsAmountWord(outcome[i])}
    IN  outcome[CHOOSE i \in S : \A j \in S : i <= j]

\* /payment\s+is\s+\$?[\d,._]+/i   and   /base\s+rate\s+is\s+\$?[\d,._]+/i
isPaymentOutcome(outcome) ==
    \E i \in DOMAIN outcome :
        /\ MatchAt(outcome, i, <<"payment", "is">>)
        /\ i + 2 <= Len(outcome)
        /\ IsAmountWord(outcome[i + 2])

isBaseRateOutcome(outcome) ==
    \E i \in DOMAIN outcome :
        /\ MatchAt(outcome, i, <<"base", "rate", "is">>)
        /\ i + 3 <= Len(outcome)
        /\ IsAmountWord(outcome[i + 3])

\* /rate\s+is\s+determined\s+by\s+(.+)/i : positions where it matches
ScheduleRefAt(outcome) ==
    {i \in DOMAIN outcome :
        /\ MatchAt(outcome, i, <<"rate", "is", "determined", "by">>)
        /\ i + 4 <= Len(outcome)}

\* scheduleMatch[1].trim()
ScheduleRefName(outcome) ==
    LET S == ScheduleRefAt(outcome)
        i == CHOOSE k \in S : \A j \in S : k <= j
    IN  SubSeq(outcome, i + 4, Len(outcome))

\* /(?:payment\s+)?reduces?\s+by\s+\d+\s+cents?\s+per\s+dollar/i : positions
ReductionAt(outcome) ==
    {i \in DOMAIN outcome :
        /\ Lower(outcome[i]) \in {"reduces", "reduce"}
        /\ MatchAt(outcome, i + 1, <<"by">>)
        /\ i + 2 <= Len(outcome)
        /\ IsDigits(outcome[i + 2])
        /\ i + 3 <= Len(outcome)
        /\ Lower(outcome[i + 3]) \in {"cents", "cent"}
        /\ MatchAt(outcome, i + 4, <<"per", "dollar">>)}

\* ... \s+over\s+\$?([\d,._]+) following it
ReductionWithThresholdAt(outcome) ==
    {i \in ReductionAt(outcome) :
        /\ MatchAt(outcome, i + 6, <<"over">>)
        /\ i + 7 <= Len(outcome)
        /\ IsAmountWord(outcome[i + 7])}

\* /(?:payment\s+)?(?:cuts?\s*out|ceases?)\s+at\s+\$?([\d,._]+)/i
isCutoutOutcome(outcome) ==
    \E i \in DOMAIN outcome :
        \/ /\ Lower(outcome[i]) \in {"ceases", "cease", "cutout", "cutsout"}
           /\ MatchAt(outcome, i + 1, <<"at">>)
           /\ i + 2 <= Len(outcome)
           /\ IsAmountWord(outcome[i + 2])
        \/ /\ Lower(outcome[i]) \in {"cuts", "cut"}
           /\ MatchAt(outcome, i + 1, <<"out", "at">>)
           /\ i + 3 <= Len(outcome)
           /\ IsAmountWord(outcome[i + 3])

AmountCheck(outcome, lineNum, message) ==
    IF ~AmountFormatOk(FirstAmount(outcome))
    THEN <<Diag(lineNum, "error", message, <<>>)>>
    ELSE <<>>

validateOutcome(outcome, lineNum, scheds) ==
    IF hasEligibility(outcome) THEN <<>>
    ELSE IF isPaymentOutcome(outcome)
    THEN AmountCheck(outcome, lineNum, "Invalid payment amount format")
    ELSE IF isBaseRateOutcome(outcome)
    THEN AmountCheck(outcome, lineNum, "Invalid base rate amount format")
    ELSE IF ScheduleRefAt(outcome) # {}
    THEN IF ScheduleRefName(outcome) \notin scheds
         THEN <<Diag(lineNum, "error", MsgNoSchedule, ScheduleRefName(outcome))>>
         ELSE <<>>
    ELSE IF ReductionAt(outcome) # {}
    THEN LET S == ReductionWithThresholdAt(outcome)
         IN  IF S = {} THEN <<>>
             ELSE LET i == CHOOSE k \in S : \A j \in S : k <= j
                  IN  (IF Num(outcome[i + 2]) > 100
                       THEN <<Diag(lineNum, "warning",
                                   "Reduction rate cannot exceed 100 cents per dollar", <<>>)>>
                       ELSE <<>>)
                      \o (IF ~AmountFormatOk(outcome[i + 7])
                          THEN <<Diag(lineNum, "error",
                                      "Invalid threshold amount format", <<>>)>>
                          ELSE <<>>)
    ELSE IF isCutoutOutcome(outcome)
    THEN AmountCheck(outcome, lineNum, "Invalid cutout amount format")
    ELSE <<Diag(lineNum, "warning", MsgUnknownOutcome, <<>>)>>


----------------------------------------------------------------------------
(* validateCourgette *)

\* the name after a block label: trimmed.substring(n).trim()
BlockName(toks) == Tail(toks)

IsHeader(toks, label) == toks # <<>> /\ toks[1] = label

\* /^(When|Given|And|Or)\s+/
IsConditionLine(toks) ==
    Len(toks) >= 2 /\ toks[1] \in {"When", "Given", "And", "Or"}

\* /^(Then|And)\s+/
IsOutcomeLine(toks) == Len(toks) >= 2 /\ toks[1] \in {"Then", "And"}

\* trimmed.startsWith('- ')
IsListItem(toks) == Len(toks) >= 2 /\ toks[1] = "-"

\* condition.endsWith('these are true:') || condition.endsWith('the following:')
IsGroupStarter(condition) ==
    \/ EndsWith(condition, <<"these", "are", "true:">>)
    \/ EndsWith(condition, <<"the", "following:">>)

\* Collected with the label left in the name (a wrong substring offset)
CollectedWithLabel(ls, label) ==
    {ls[i].toks : i \in {k \in DOMAIN ls :
        IsHeader(ls[k].toks, label) /\ BlockName(ls[k].toks) # <<>>}}

\* first pass: the names collected from the lines that start with `label`
Collected(ls, label) ==
    {BlockName(ls[i].toks) : i \in {k \in DOMAIN ls :
        IsHeader(ls[k].toks, label) /\ BlockName(ls[k].toks) # <<>>}}

\* /^When\s+(.+?):\s*\$?([\d,._]+)(?:\s+per\s+(\w+))?$/ : the position of the
\* word that ends the condition with ':' (0 when the line does not match)
EndsWithColon(w) == w \in {"single:", "couple:", "true:", "following:", "5:"}

EntryColonAt(toks) ==
    LET n == Len(toks)
        S == {i \in 2..n :
                /\ EndsWithColon(toks[i])
                /\ i + 1 <= n
                /\ IsAmountWord(toks[i + 1])
                /\ \/ n = i + 1
                   \/ /\ n = i + 3
                      /\ toks[i + 2] = "per"
                      /\ IsIdentifier(toks[i + 3])}
    IN  IF toks # <<>> /\ toks[1] = "When" /\ S # {}
        THEN CHOOSE i \in S : \A j \in S : i <= j
        ELSE 0

KnownPeriod(w) == Lower(w) \in {"fortnight", "week", "month", "year"}

\* the locals of one call (validator.js 21-35)
\* the diagnostics list kept from the call before
NewCallKeepingErrors ==
    [currentBlock |-> "none", blockStartLine |-> -1, hasConditions |-> FALSE,
     hasOutcomes |-> FALSE, expectingListItems |-> FALSE, errors |-> errors]

NewCall ==
    [currentBlock |-> "none", blockStartLine |-> -1, hasConditions |-> FALSE,
     hasOutcomes |-> FALSE, expectingListItems |-> FALSE, errors |-> <<>>]

TabWarning(line, lineNum) ==
    IF line.tab THEN <<Diag(lineNum, "warning", MsgTabs, <<>>)>> ELSE <<>>

\* the `Scenario:` branch without the assignment to blockStartLine
ScenarioHeaderNoStart(s, toks, lineNum, pre) ==
    [s EXCEPT
        !.errors = pre
            \o (IF s.currentBlock = "scenario" /\ ~s.hasOutcomes
                THEN <<Diag(s.blockStartLine, "error", MsgMissing, <<>>)>>
                ELSE <<>>)
            \o (IF BlockName(toks) = <<>>
                THEN <<Diag(lineNum, "error", MsgScenarioName, <<>>)>>
                ELSE IF ~StartsWithCapital(BlockName(toks)[1])
                THEN <<Diag(lineNum, "warning", MsgScenarioCap, <<>>)>>
                ELSE <<>>),
        !.currentBlock = "scenario",
        !.hasConditions = FALSE,
        !.hasOutcomes = FALSE]

\* the `Scenario:` branch
ScenarioHeader(s, toks, lineNum, pre) ==
    [s EXCEPT
        !.errors = pre
            \o (IF s.currentBlock = "scenario" /\ ~s.hasOutcomes
                THEN <<Diag(s.blockStartLine, "error", MsgMissing, <<>>)>>
                ELSE <<>>)
            \o (IF BlockName(toks) = <<>>
                THEN <<Diag(lineNum, "error", MsgScenarioName, <<>>)>>
                ELSE IF ~StartsWithCapital(BlockName(toks)[1])
                THEN <<Diag(lineNum, "warning", MsgScenarioCap, <<>>)>>
                ELSE <<>>),
        !.currentBlock = "scenario",
        !.blockStartLine = lineNum,
        !.hasConditions = FALSE,
        !.hasOutcomes = FALSE]

\* the `Definition:` and `Schedule:` branches
OtherHeader(s, toks, lineNum, pre, block, message) ==
    [s EXCEPT
        !.errors = pre
            \o (IF BlockName(toks) = <<>>
                THEN <<Diag(lineNum, "error", message, <<>>)>>
                ELSE <<>>),
        !.currentBlock = block,
        !.blockStartLine = lineNum]

\* the keyword check of a condition line, made after hasConditions is updated
OrCheck(keyword, hasConds, lineNum) ==
    IF keyword = "Or" /\ ~hasConds
    THEN <<Diag(lineNum, "error", MsgOrFirst, <<>>)>>
    ELSE <<>>

\* a When/Given/And/Or line of a scenario
ConditionLine(s, toks, lineNum, pre) ==
    LET keyword == toks[1]
        condition == Tail(toks)
        group == IsGroupStarter(condition)
        hasConds == IF group THEN s.hasConditions ELSE TRUE
    IN  [s EXCEPT
            !.expectingListItems = IF group THEN TRUE ELSE @,
            !.hasConditions = hasConds,
            !.errors = pre
                \o (IF group THEN <<>> ELSE validateCondition(condition, lineNum))
                \o OrCheck(keyword, hasConds, lineNum)]

\* ListItemLine with the test of expectingListItems inverted
ListItemLineInverted(s, toks, lineNum, pre) ==
    [s EXCEPT
        !.errors = pre
            \o (IF s.expectingListItems
                THEN <<Diag(lineNum, "error", MsgListItem, <<>>)>>
                ELSE <<>>)
            \o validateCondition(Tail(toks), lineNum)]

\* a `- ` line of a scenario
ListItemLine(s, toks, lineNum, pre) ==
    [s EXCEPT
        !.errors = pre
            \o (IF ~s.expectingListItems
                THEN <<Diag(lineNum, "error", MsgListItem, <<>>)>>
                ELSE <<>>)
            \o validateCondition(Tail(toks), lineNum)]

\* a Then/And line of a scenario that is not a condition line
OutcomeLine(s, toks, lineNum, pre, scheds) ==
    [s EXCEPT
        !.errors = pre
            \o (IF ~s.hasConditions
                THEN <<Diag(lineNum, "error", MsgThenFirst, <<>>)>>
                ELSE <<>>)
            \o validateOutcome(Tail(toks), lineNum, scheds),
        !.hasOutcomes = TRUE,
        !.expectingListItems = FALSE]

\* a line of a schedule block
ScheduleLine(s, toks, lineNum, pre) ==
    [s EXCEPT
        !.errors = pre \o
            (IF toks[1] = "When" /\ Len(toks) >= 2
             THEN LET c == EntryColonAt(toks)
                  IN  IF c = 0
                      THEN <<Diag(lineNum, "error", MsgEntryFormat, <<>>)>>
                      ELSE (IF ~AmountFormatOk(toks[c + 1])
                            THEN <<Diag(lineNum, "error", MsgEntryAmount, <<>>)>>
                            ELSE <<>>)
                           \o (IF Len(toks) = c + 3 /\ ~KnownPeriod(toks[c + 3])
                               THEN <<Diag(lineNum, "warning", "Unknown period",
                                           <<toks[c + 3]>>)>>
                               ELSE <<>>)
             ELSE IF toks[1] \notin {"Note:", "#"}
             THEN <<Diag(lineNum, "error", MsgEntryExpected, <<>>)>>
             ELSE <<>>)]

\* the callback of the second pass (validator.js 50-282) on one line
SecondPassLine(s, line, lineNum, scheds) ==
    LET toks == line.toks
        pre == s.errors \o TabWarning(line, lineNum)
    IN  IF toks = <<>>
        THEN [s EXCEPT !.errors = pre, !.expectingListItems = FALSE]
        ELSE IF IsHeader(toks, "Scenario:")
        THEN ScenarioHeader(s, toks, lineNum, pre)
        ELSE IF IsHeader(toks, "Definition:")
        THEN OtherHeader(s, toks, lineNum, pre, "definition", MsgDefinitionName)
        ELSE IF IsHeader(toks, "Schedule:")
        THEN OtherHeader(s, toks, lineNum, pre, "schedule", MsgScheduleName)
        ELSE IF s.currentBlock = "scenario"
        THEN IF IsConditionLine(toks)
             THEN ConditionLine(s, toks, lineNum, pre)
             ELSE IF IsListItem(toks)
             THEN ListItemLine(s, toks, lineNum, pre)
             ELSE IF IsOutcomeLine(toks)
             THEN OutcomeLine(s, toks, lineNum, pre, scheds)
             ELSE IF toks[1] # "#"
             THEN [s EXCEPT !.errors =
                      pre \o <<Diag(lineNum, "error", MsgExpected, <<>>)>>]
             ELSE [s EXCEPT !.errors = pre]
        ELSE IF s.currentBlock = "schedule"
        THEN ScheduleLine(s, toks, lineNum, pre)
        ELSE [s EXCEPT !.errors = pre]

\* the final checks (validator.js 284-294)
FinalErrors(s) ==
    s.errors \o
    (IF s.currentBlock = "scenario" /\ ~s.hasOutcomes
     THEN <<Diag(s.blockStartLine, "error", MsgMissing, <<>>)>>
     ELSE <<>>)

----------------------------------------------------------------------------
(* The validator as a state machine: one call of validateCourgette *)

\* the lines the documents are made of
ValidatorLines ==
    { L(<<>>),
      L(<<"Scenario:", "S">>),
      L(<<"Definition:", "D">>),
      L(<<"Schedule:", "N">>),
      L(<<"Schedule:", "M">>),
      L(<<"When", "age", "<", "5">>),
      L(<<"When", "foo", "bar">>),
      L(<<"And", "any", "of", "these", "are", "true:">>),
      L(<<"Or", "age", "<", "5">>),
      L(<<"Or", "any", "of", "these", "are", "true:">>),
      L(<<"-", "age", "<", "5">>),
      L(<<"-", "foo", "bar">>),
      L(<<"Then", "x", "is", "eligible">>),
      L(<<"Then", "rate", "is", "determined", "by", "N">>) }

Documents == UNION {[1..n -> ValidatorLines] : n \in 1..MaxLines}

Locals ==
    [currentBlock |-> currentBlock, blockStartLine |-> blockStartLine,
     hasConditions |-> hasConditions, hasOutcomes |-> hasOutcomes,
     expectingListItems |-> expectingListItems, errors |-> errors]

SetLocals(s) ==
    /\ currentBlock' = s.currentBlock
    /\ blockStartLine' = s.blockStartLine
    /\ hasConditions' = s.hasConditions
    /\ hasOutcomes' = s.hasOutcomes
    /\ expectingListItems' = s.expectingListItems
    /\ errors' = s.errors

ValidatorInit ==
    /\ lines \in Documents
    /\ pc = "start"
    /\ idx = 0
    /\ currentBlock = NewCall.currentBlock
    /\ blockStartLine = NewCall.blockStartLine
    /\ hasConditions = NewCall.hasConditions
    /\ hasOutcomes = NewCall.hasOutcomes
    /\ expectingListItems = NewCall.expectingListItems
    /\ errors = NewCall.errors
    /\ definitions = {}
    /\ schedules = {}
    /\ CompilerUnused /\ WorkerUnused /\ GuessUnused

\* validator.js 37-47
FirstPass ==
    /\ pc = "start"
    /\ definitions' = Collected(lines, "Definition:")
    /\ schedules' = Collected(lines, "Schedule:")
    /\ pc' = "second"
    /\ UNCHANGED <<lines, idx, currentBlock, blockStartLine, hasConditions,
                   hasOutcomes, expectingListItems, errors>>
    /\ UNCHANGED <<compVars, workerVars, guessVars>>

\* validator.js 83, 293: lines[blockStartLine - 1].length raises a TypeError
\* when there is no such line
MissingOutcomeThrows(s, ls) ==
    /\ s.currentBlock = "scenario"
    /\ ~s.hasOutcomes
    /\ s.blockStartLine \notin 1..Len(ls)

\* validator.js 68-85: the report made on a Scenario header would throw
ThrowsOnLine(s, line, ls) ==
    /\ line.toks # <<>>
    /\ IsHeader(line.toks, "Scenario:")
    /\ MissingOutcomeThrows(s, ls)

\* validator.js 50-282, one line
SecondPass ==
    /\ pc = "second"
    /\ idx < Len(lines)
    /\ IF ThrowsOnLine(Locals, lines[idx + 1], lines)
       THEN /\ pc' = "threw"
            /\ UNCHANGED <<idx, currentBlock, blockStartLine, hasConditions,
                           hasOutcomes, expectingListItems, errors>>
       ELSE /\ SetLocals(SecondPassLine(Locals, lines[idx + 1], idx + 1, schedules))
            /\ idx' = idx + 1
            /\ pc' = pc
    /\ UNCHANGED <<lines, definitions, schedules>>
    /\ UNCHANGED <<compVars, workerVars, guessVars>>

\* validator.js 284-296
FinalChecks ==
    /\ pc = "second"
    /\ idx = Len(lines)
    /\ IF MissingOutcomeThrows(Locals, lines)
       THEN pc' = "threw" /\ UNCHANGED errors
       ELSE pc' = "done" /\ errors' = FinalErrors(Locals)
    /\ UNCHANGED <<lines, idx, currentBlock, blockStartLine, hasConditions,
                   hasOutcomes, expectingListItems, definitions, schedules>>
    /\ UNCHANGED <<compVars, workerVars, guessVars>>

ValidatorNext == FirstPass \/ SecondPass \/ FinalChecks

SpecValidator == ValidatorInit /\ [][ValidatorNext]_vars

----------------------------------------------------------------------------
(* The structure of a document, read off its lines alone *)

IsAnyHeader(toks) ==
    \/ IsHeader(toks, "Scenario:")
    \/ IsHeader(toks, "Definition:")
    \/ IsHeader(toks, "Schedule:")

ScenarioHeaders == {h \in DOMAIN lines : IsHeader(lines[h].toks, "Scenario:")}

\* the last line of the block that the header on line h opens
BlockEnd(h) ==
    LET S == {j \in DOMAIN lines : j > h /\ IsAnyHeader(lines[j].toks)}
    IN  IF S = {} THEN Len(lines) ELSE (CHOOSE j \in S : \A k \in S : j <= k) - 1

BlockLines(h) == (h + 1)..BlockEnd(h)

\* line j lies in a Scenario block
InScenario(j) ==
    \E h \in ScenarioHeaders : j \in BlockLines(h)

IsThenLine(toks) == Len(toks) >= 2 /\ toks[1] = "Then"

\* a condition line that opens a group
IsOpenerLine(toks) == IsConditionLine(toks) /\ IsGroupStarter(Tail(toks))

\* the diagnostics reported on line j that satisfy P
ErrorsAt(j) == {k \in DOMAIN errors : errors[k].line = j /\ errors[k].severity = "error"}

Reports(d) == {k \in DOMAIN errors : errors[k] = d}

Done == pc = "done"

----------------------------------------------------------------------------
(* C1 *)

\* C1 (as claimed): every Scenario block without a Then line gets exactly one
\* 'Scenario missing outcome statements' error on its header line, whichever
\* way the block ends (next Scenario:, Definition:/Schedule:, end of document).
C1_MissingOutcomeHowEverEnded ==
    Done =>
        \A h \in ScenarioHeaders :
            (\A j \in BlockLines(h) : ~IsThenLine(lines[j].toks))
                => Cardinality(Reports(Diag(h, "error", MsgMissing, <<>>))) = 1

----------------------------------------------------------------------------
(* C2 *)

\* the list item on line j directly follows a group opener: only list items
\* lie between the opener and line j
FollowsOpener(j) ==
    \E k \in 1..(j - 1) :
        /\ IsOpenerLine(lines[k].toks)
        /\ \A m \in (k + 1)..(j - 1) : IsListItem(lines[m].toks)

NoOpenerSince(j) ==
    \A k \in 1..(j - 1) :
        IsOpenerLine(lines[k].toks) =>
            \E m \in (k + 1)..(j - 1) :
                lines[m].toks = <<>> \/ IsThenLine(lines[m].toks)

----------------------------------------------------------------------------
(* C3 *)

\* the first When/Given/And/Or line of the scenario opened on line h (0: none)
FirstConditionLine(h) ==
    LET S == {j \in BlockLines(h) : IsConditionLine(lines[j].toks)}
    IN  IF S = {} THEN 0 ELSE CHOOSE j \in S : \A k \in S : j <= k

\* C3 (as claimed): when the first condition line of a scenario starts with
\* Or, 'Or cannot be used before any conditions' is reported on that line,
\* for an ordinary condition as for a group opener.
C3_OrFirstIsError ==
    Done =>
        \A h \in ScenarioHeaders :
            LET j == FirstConditionLine(h)
            IN  (j # 0 /\ lines[j].toks[1] = "Or")
                    => Reports(Diag(j, "error", MsgOrFirst, <<>>)) # {}

----------------------------------------------------------------------------
(* C4 *)

IsScheduleRefLine(toks) ==
    /\ Len(toks) >= 6
    /\ SubSeq(toks, 1, 5) = <<"Then", "rate", "is", "determined", "by">>

DeclaresSchedule(name) ==
    \E i \in DOMAIN lines : lines[i].toks = <<"Schedule:">> \o name

\* C4: `Then rate is determined by N` in a scenario gets the error
\* 'Schedule N not defined' exactly when no line `Schedule: N` occurs anywhere
\* in the document, before or after the scenario.
C4_ScheduleErrorIffUndeclared ==
    Done =>
        \A j \in DOMAIN lines :
            (InScenario(j) /\ IsScheduleRefLine(lines[j].toks)) =>
                LET name == SubSeq(lines[j].toks, 6, Len(lines[j].toks))
                IN  (Reports(Diag(j, "error", MsgNoSchedule, name)) # {})
                        <=> ~DeclaresSchedule(name)

\* a reference whose schedule is declared only after the scenario: no error
C4_Witness ==
    /\ Done
    /\ \E j, i \in DOMAIN lines :
          /\ InScenario(j)
          /\ IsScheduleRefLine(lines[j].toks)
          /\ i > j
          /\ lines[i].toks = <<"Schedule:", "N">>
          /\ ErrorsAt(j) \subseteq Reports(Diag(j, "error", MsgThenFirst, <<>>))

----------------------------------------------------------------------------
(* C5 *)

\* C5 (as claimed): the returned list is ordered by line.
C5_OrderedByLine ==
    Done =>
        \A i, j \in DOMAIN errors : i < j => errors[i].line <= errors[j].line

----------------------------------------------------------------------------
(* compiler.js: parseCondition over words.  "(" and ")" are words of their own *)

RECURSIVE ReplacePhrase(_, _, _)
\* .replace(/\bw1\s+w2...\b/gi, op)
ReplacePhrase(ws, pat, op) ==
    IF ws = <<>> THEN <<>>
    ELSE IF MatchAt(ws, 1, pat)
    THEN <<op>> \o ReplacePhrase(SubSeq(ws, Len(pat) + 1, Len(ws)), pat, op)
    ELSE <<Head(ws)>> \o ReplacePhrase(Tail(ws), pat, op)

RECURSIVE ReplaceBareIs(_)
\* .replace(/\bis\b(?!\s+(less|greater|at|more|no|equal|not))/gi, '==')
ReplaceBareIs(ws) ==
    IF ws = <<>> THEN <<>>
    ELSE IF /\ Lower(Head(ws)) = "is"
            /\ ~(Len(ws) >= 2 /\ Lower(ws[2]) \in
                    {"less", "greater", "at", "more", "no", "equal", "not"})
    THEN <<"==">> \o ReplaceBareIs(Tail(ws))
    ELSE <<Head(ws)>> \o ReplaceBareIs(Tail(ws))

\* compiler.js 454-466
NaturalToSymbols(ws) ==
    LET r1 == ReplacePhrase(ws, <<"is", "less", "than">>, "<")
        r2 == ReplacePhrase(r1, <<"is", "greater", "than">>, ">")
        r3 == ReplacePhrase(r2, <<"is", "at", "least">>, ">=")
        r4 == ReplacePhrase(r3, <<"is", "at", "most">>, "<=")
        r5 == ReplacePhrase(r4, <<"is", "more", "than">>, ">")
        r6 == ReplacePhrase(r5, <<"is", "no", "more", "than">>, "<=")
        r7 == ReplacePhrase(r6, <<"is", "no", "less", "than">>, ">=")
        r8 == ReplacePhrase(r7, <<"is", "equal", "to">>, "==")
        r9 == ReplacePhrase(r8, <<"is", "not", "equal", "to">>, "!=")
        r10 == ReplacePhrase(r9, <<"is", "not">>, "!=")
    IN  ReplaceBareIs(r10)

\* /(\w+)\s+between\s+(\S+)\s+and\s+(\S+)/i : where the variable stands (0: no match)
BetweenAt(ws) ==
    LET S == {i \in DOMAIN ws :
                /\ EndsInWordChar(ws[i])
                /\ i + 4 <= Len(ws)
                /\ Lower(ws[i + 1]) = "between"
                /\ Lower(ws[i + 3]) = "and"}
    IN  IF S = {} THEN 0 ELSE CHOOSE i \in S : \A j \in S : i <= j

\* compiler.js 468-473: `${varName} >= ${low}) and (${varName} <= ${high}`
RewriteBetween(ws) ==
    LET i == BetweenAt(ws)
    IN  IF i = 0 THEN ws
        ELSE SubSeq(ws, 1, i - 1)
             \o <<ws[i], ">=", ws[i + 2], ")", "and", "(", ws[i], "<=", ws[i + 4]>>
             \o SubSeq(ws, i + 5, Len(ws))

RECURSIVE SpaceOperators(_)
\* compiler.js 477-482: ' == ', ' != ', ' <= ', ' >= ' and then ' < ', ' > ',
\* which also match the < of <= and the > of >=
SpaceOperators(ws) ==
    IF ws = <<>> THEN <<>>
    ELSE (CASE Head(ws) = "<=" -> <<"<", "=">>
            [] Head(ws) = ">=" -> <<">", "=">>
            [] OTHER -> <<Head(ws)>>)
         \o SpaceOperators(Tail(ws))

\* compiler.js 483-484: the $ and the commas of a number removed
StripMoney(w) ==
    CASE w \in {"$1000", "1,000"} -> "1000"
      [] w = "$200" -> "200"
      [] w = "$100" -> "100"
      [] w = "$0" -> "0"
      [] w \in {"$5,767", "5,767"} -> "5767"
      [] w = "$350.50" -> "350.50"
      [] OTHER -> w

\* compiler.js 485-489
BooleanLiteral(w) ==
    CASE Lower(w) \in {"true", "yes", "eligible"} -> "True"
      [] Lower(w) \in {"false", "no"} -> "False"
      [] OTHER -> w

\* compiler.js 490: "..." becomes '...'
QuoteLiteral(w) == IF w = "\"a\"" THEN "'a'" ELSE w

\* compiler.js 452-493
parseCondition(condition) ==
    LET spaced == SpaceOperators(RewriteBetween(NaturalToSymbols(condition)))
    IN  [i \in DOMAIN spaced |-> QuoteLiteral(BooleanLiteral(StripMoney(spaced[i])))]

----------------------------------------------------------------------------
(* compiler.js: parseOutcome *)

\* the word matched by (\w+) in the first eligibility pattern that matches
EligibilityVariable(outcome) ==
    LET At(pat) == {i \in DOMAIN outcome :
                      EndsInWordChar(outcome[i]) /\ MatchAt(outcome, i + 1, pat)}
        First(S) == CHOOSE i \in S : \A j \in S : i <= j
        pats == << <<"=", "true">>, <<"is", "eligible">>, <<"is", "yes">>,
                   <<"is", "true">> >>
        k == CHOOSE n \in 1..4 : At(pats[n]) # {} /\ \A m \in 1..(n - 1) : At(pats[m]) = {}
    IN  outcome[First(At(pats[k]))]

\* /payment\s+is\s+\$?([\d,._]+)(?:\s+per\s+(\w+))?/i : where `payment` stands
PaymentAt(outcome) ==
    LET S == {i \in DOMAIN outcome :
                /\ MatchAt(outcome, i, <<"payment", "is">>)
                /\ i + 2 <= Len(outcome)
                /\ IsAmountWord(outcome[i + 2])}
    IN  IF S = {} THEN 0 ELSE CHOOSE i \in S : \A j \in S : i <= j

\* /payment\s+reduces\s+by\s+(\d+)\s+cents\s+per\s+dollar\s+over\s+\$?([\d,._]+)/i
PaymentReducesAt(outcome) ==
    LET S == {i \in DOMAIN outcome :
                /\ MatchAt(outcome, i, <<"payment", "reduces", "by">>)
                /\ i + 3 <= Len(outcome)
                /\ IsDigits(outcome[i + 3])
                /\ MatchAt(outcome, i + 4, <<"cents", "per", "dollar", "over">>)
                /\ i + 8 <= Len(outcome)
                /\ IsAmountWord(outcome[i + 8])}
    IN  IF S = {} THEN 0 ELSE CHOOSE i \in S : \A j \in S : i <= j

\* the capture groups read the other way round
ReductionOutcomeSwapped(outcome, i) ==
    [type |-> "reduction",
     cents |-> Num(outcome[i + 8]),
     threshold |-> Num(outcome[i + 3])]

\* compiler.js 532-539: match[1] is the cents, match[2] the threshold
ReductionOutcome(outcome, i) ==
    [type |-> "reduction",
     cents |-> Num(outcome[i + 3]),
     threshold |-> Num(outcome[i + 8])]

\* compiler.js 495-542
parseOutcome(outcome) ==
    IF hasEligibility(outcome)
    THEN [type |-> "eligibility", variable |-> EligibilityVariable(outcome)]
    ELSE IF PaymentAt(outcome) # 0
    THEN LET i == PaymentAt(outcome)
         IN  [type |-> "payment",
              amount |-> Num(outcome[i + 2]),
              period |-> IF /\ i + 4 <= Len(outcome)
                            /\ Lower(outcome[i + 3]) = "per"
                            /\ IsIdentifier(outcome[i + 4])
                         THEN outcome[i + 4] ELSE "fortnight"]
    ELSE IF ScheduleRefAt(outcome) # {}
    THEN [type |-> "schedule", schedule |-> ScheduleRefName(outcome)]
    ELSE IF PaymentReducesAt(outcome) # 0
    THEN ReductionOutcome(outcome, PaymentReducesAt(outcome))
    ELSE [type |-> "unknown", text |-> outcome]

----------------------------------------------------------------------------
(* compiler.js: extractVariables, guessVariableType *)

\* compiler.js 556-575, lower case
ExcludeWords ==
    {"true", "false", "yes", "no", "eligible", "and", "or", "not", "between",
     "is", "are", "was", "were", "be", "been", "has", "have", "less",
     "greater", "than", "at", "least", "most", "more", "equal", "to", "per",
     "by", "cents", "cent", "dollar", "dollars", "over", "under", "payment",
     "payments", "rate", "rates", "reduces", "reduced", "reduction", "amount",
     "base", "maximum", "minimum", "fortnight", "fortnightly", "week",
     "weekly", "month", "monthly", "year", "yearly", "annual", "annually",
     "day", "daily", "all", "any", "of", "these", "the", "a", "an", "then",
     "when", "given", "if"}

\* the matches of /\b[a-zA-Z_]\w*\b/g in one word
IdentsOf(w) ==
    CASE IsIdentifier(w) -> <<w>>
      [] w = "single:" -> <<"single">>
      [] w = "couple:" -> <<"couple">>
      [] w = "true:" -> <<"true">>
      [] w = "following:" -> <<"following">>
      [] w \in {"\"a\"", "'a'", "\"a", "'a", "a\""} -> <<"a">>
      [] w \in {"True", "False"} -> <<w>>
      [] OTHER -> <<>>

RECURSIVE Flatten(_)
Flatten(ss) == IF ss = <<>> THEN <<>> ELSE Head(ss) \o Flatten(Tail(ss))

\* Set.add of each element of xs, in order, to the insertion-ordered set acc
RECURSIVE AddAll(_, _)
AddAll(acc, xs) ==
    IF xs = <<>> THEN acc
    ELSE AddAll(IF \E i \in DOMAIN acc : acc[i] = Head(xs)
                THEN acc ELSE Append(acc, Head(xs)),
                Tail(xs))

\* compiler.js 544-582: the variables that text adds to the set
extractVariables(text, vs) ==
    LET clean == SelectSeq(text, LAMBDA w : QuoteCount(w) # 2)
        found == Flatten([i \in DOMAIN clean |-> IdentsOf(clean[i])])
    IN  AddAll(vs, SelectSeq(found, LAMBDA w : Lower(w) \notin ExcludeWords))

\* the characters of a name
Chars(w) ==
    CASE w = "age" -> <<"a", "g", "e">>
      [] w = "income" -> <<"i", "n", "c", "o", "m", "e">>
      [] w = "x" -> <<"x">>
      [] w = "foo" -> <<"f", "o", "o">>
      [] w = "bar" -> <<"b", "a", "r">>
      [] w = "studying" -> <<"s", "t", "u", "d", "y", "i", "n", "g">>
      [] w = "is_student" -> <<"i", "s", "_", "s", "t", "u", "d", "e", "n", "t">>
      [] w = "is_couple" -> <<"i", "s", "_", "c", "o", "u", "p", "l", "e">>
      [] w = "single" -> <<"s", "i", "n", "g", "l", "e">>
      [] w = "determined" -> <<"d", "e", "t", "e", "r", "m", "i", "n", "e", "d">>
      [] w = "N" -> <<"N">>
      [] w = "M" -> <<"M">>
      [] w = "S" -> <<"S">>
      [] w = "Scenario:" -> <<"S", "c", "e", "n", "a", "r", "i", "o", ":">>
      [] w = "When" -> <<"W", "h", "e", "n">>
      [] w = "Then" -> <<"T", "h", "e", "n">>
      [] w = "And" -> <<"A", "n", "d">>
      [] w = "Or" -> <<"O", "r">>
      [] w = "-" -> <<"-">>
      [] w = "<" -> <<"<">>
      [] w = "5" -> <<"5">>
      [] w = "rate" -> <<"r", "a", "t", "e">>
      [] w = "is" -> <<"i", "s">>
      [] w = "by" -> <<"b", "y">>
      [] w = "between" -> <<"b", "e", "t", "w", "e", "e", "n">>
      [] w = "eligible" -> <<"e", "l", "i", "g", "i", "b", "l", "e">>
      [] OTHER -> <<"?">>

LowerChar(c) ==
    CASE c = "A" -> "a"
      [] c = "N" -> "n"
      [] c = "M" -> "m"
      [] c = "S" -> "s"
      [] c = "T" -> "t"
      [] c = "D" -> "d"
      [] OTHER -> c

\* String.includes, String.startsWith
Includes(str, sub) ==
    \E i \in 1..(Len(str) - Len(sub) + 1) : SubSeq(str, i, i + Len(sub) - 1) = sub

StartsWith(str, sub) == Len(str) >= Len(sub) /\ SubSeq(str, 1, Len(sub)) = sub

StrAge == <<"a", "g", "e">>
StrIs == <<"i", "s", "_">>
StrHas == <<"h", "a", "s", "_">>
StrEligible == <<"e", "l", "i", "g", "i", "b", "l", "e">>
StrStudying == <<"s", "t", "u", "d", "y", "i", "n", "g">>
StrResident == <<"r", "e", "s", "i", "d", "e", "n", "t">>
StrCitizen == <<"c", "i", "t", "i", "z", "e", "n">>
StrYears == <<"y", "e", "a", "r", "s">>
StrStatus == <<"s", "t", "a", "t", "u", "s">>
StrType == <<"t", "y", "p", "e">>
StrCategory == <<"c", "a", "t", "e", "g", "o", "r", "y">>
StrIncome == <<"i", "n", "c", "o", "m", "e">>
StrPayment == <<"p", "a", "y", "m", "e", "n", "t">>
StrAmount == <<"a", "m", "o", "u", "n", "t">>
StrRate == <<"r", "a", "t", "e">>
StrAsset == <<"a", "s", "s", "e", "t">>
StrValue == <<"v", "a", "l", "u", "e">>

\* the rules both definitions share; they differ in two periods
GuessRules(variable, boolPeriod, moneyPeriod) ==
    LET varLower == [i \in DOMAIN variable |-> LowerChar(variable[i])]
    IN  IF Includes(varLower, StrAge)
        THEN [type |-> "int", period |-> "DAY"]
        ELSE IF \/ StartsWith(varLower, StrIs)
                \/ StartsWith(varLower, StrHas)
                \/ Includes(varLower, StrEligible)
                \/ varLower = StrStudying
        THEN [type |-> "bool", period |-> boolPeriod]
        ELSE IF Includes(varLower, StrResident) \/ Includes(varLower, StrCitizen)
        THEN [type |-> "bool", period |-> "ETERNITY"]
        ELSE IF Includes(varLower, StrYears)
                \/ Includes(varLower, <<"_">> \o StrYears)
        THEN [type |-> "int", period |-> "YEAR"]
        ELSE IF \/ Includes(varLower, StrStatus)
                \/ Includes(varLower, StrType)
                \/ Includes(varLower, StrCategory)
        THEN [type |-> "str", period |-> "MONTH"]
        ELSE IF \/ Includes(varLower, StrIncome)
                \/ Includes(varLower, StrPayment)
                \/ Includes(varLower, StrAmount)
                \/ Includes(varLower, StrRate)
                \/ Includes(varLower, StrAsset)
                \/ Includes(varLower, StrValue)
        THEN [type |-> "float", period |-> moneyPeriod]
        ELSE [type |-> "float", period |-> "MONTH"]

\* compiler.js 131-170: the first declaration, replaced by the second when
\* the script is loaded
guessVariableTypeFirst(variable) == GuessRules(variable, "DAY", "DAY")

\* compiler.js 584-623: the declaration in effect
guessVariableType(variable) == GuessRules(variable, "MONTH", "MONTH")

----------------------------------------------------------------------------
(* compiler.js: the generators.  The generated text is modelled as the      *)
(* sequence of its declarations, in the order they are written.             *)

\* the runs of [a-z0-9] of a word, lower case
AlnumPieces(w) ==
    CASE IsIdentifier(w) -> <<Lower(w)>>
      [] IsDigits(w) -> <<w>>
      [] w \in {"N", "M", "S", "T", "D"} -> <<LowerChar(w)>>
      [] w = "single:" -> <<"single">>
      [] w = "couple:" -> <<"couple">>
      [] IsAmountWord(w) /\ AmountFormatOk(w) -> <<StripMoney(w)>>
      [] OTHER -> <<>>

\* name.toLowerCase().replace(/\s+/g, '_') and .replace(/[^a-z0-9]+/g, '_'):
\* the pieces that the underscores join
Slug(words) == Flatten([i \in DOMAIN words |-> AlnumPieces(words[i])])

\* compiler.js 625-642
generateVariableDefinitions(vs) ==
    [i \in DOMAIN vs |->
        [kind |-> "variable", name |-> vs[i],
         type |-> guessVariableType(Chars(vs[i])).type,
         period |-> guessVariableType(Chars(vs[i])).period]]

\* `${paramName}_${conditionName}` of a schedule entry
EntryVariable(scheduleName, condition) ==
    [param |-> Slug(scheduleName), cond |-> Slug(condition)]

\* compiler.js 644-667; schedMap is the Map in insertion order
generateScheduleParameters(schedMap) ==
    Flatten([k \in DOMAIN schedMap |->
        [e \in DOMAIN schedMap[k].entries |->
            [kind |-> "schedule_parameter",
             name |-> EntryVariable(schedMap[k].name, schedMap[k].entries[e].condition),
             default_value |-> schedMap[k].entries[e].amount]]])

\* schedules.get(name): found is FALSE for undefined
ScheduleGet(schedMap, name) ==
    LET S == {k \in DOMAIN schedMap : schedMap[k].name = name}
    IN  IF S = {} THEN [found |-> FALSE, entries |-> <<>>]
        ELSE [found |-> TRUE, entries |-> schedMap[CHOOSE k \in S : TRUE].entries]

\* a word of a parsed schedule condition: plain text, or person('w', period)
Txt(w) == [person |-> FALSE, w |-> w]
Person(w) == [person |-> TRUE, w |-> w]

\* /(\w+)\s+between\s+(\d+)\s+and\s+(\d+)/i
ScheduleBetweenAt(ws) ==
    LET S == {i \in DOMAIN ws :
                /\ EndsInWordChar(ws[i])
                /\ i + 4 <= Len(ws)
                /\ Lower(ws[i + 1]) = "between"
                /\ IsDigits(ws[i + 2])
                /\ Lower(ws[i + 3]) = "and"
                /\ IsDigits(ws[i + 4])}
    IN  IF S = {} THEN 0 ELSE CHOOSE i \in S : \A j \in S : i <= j

RECURSIVE ReplaceComparison(_, _, _)
\* .replace(/(\w+)\s+<phrase>\s+(\d+)/gi, "person('$1', period) <op> $2")
ReplaceComparison(ws, pat, op) ==
    IF ws = <<>> THEN <<>>
    ELSE IF /\ ~Head(ws).person
            /\ EndsInWordChar(Head(ws).w)
            /\ Len(ws) >= Len(pat) + 2
            /\ \A k \in 1..Len(pat) : ~ws[k + 1].person /\ Lower(ws[k + 1].w) = pat[k]
            /\ ~ws[Len(pat) + 2].person
            /\ IsDigits(ws[Len(pat) + 2].w)
    THEN <<Person(Head(ws).w), Txt(op), ws[Len(pat) + 2]>>
         \o ReplaceComparison(SubSeq(ws, Len(pat) + 3, Len(ws)), pat, op)
    ELSE <<Head(ws)>> \o ReplaceComparison(Tail(ws), pat, op)

\* compiler.js 669-698
parseScheduleCondition(condition) ==
    LET b == ScheduleBetweenAt(condition)
        t0 == [i \in DOMAIN condition |-> Txt(condition[i])]
        t1 == ReplaceComparison(t0, <<"is", "less", "than">>, "<")
        t2 == ReplaceComparison(t1, <<"is", "greater", "than">>, ">")
        t3 == ReplaceComparison(t2, <<"is", "at", "least">>, ">=")
        t4 == ReplaceComparison(t3, <<"is", "at", "most">>, "<=")
        t5 == ReplaceComparison(t4, <<"<">>, "<")
        t6 == ReplaceComparison(t5, <<">">>, ">")
        t7 == ReplaceComparison(t6, <<"<=">>, "<=")
        t8 == ReplaceComparison(t7, <<">=">>, ">=")
    IN  IF b # 0
        THEN <<Person(condition[b]), Txt(">="), Txt(condition[b + 2]), Txt("and"),
               Person(condition[b]), Txt("<="), Txt(condition[b + 4])>>
        ELSE IF \A i \in DOMAIN t8 : ~t8[i].person
        THEN <<Person("family_situation"), Txt("==")>>
             \o [i \in DOMAIN condition |-> Txt(condition[i])]
        ELSE t8

\* compiler.js 741-745: the second variable of a `between` replaced by the first
FixBetweenVariable(ws) ==
    LET S == {i \in DOMAIN ws :
                /\ EndsInWordChar(ws[i])
                /\ i + 8 <= Len(ws)
                /\ ws[i + 1] = ">="
                /\ IsDigits(ws[i + 2])
                /\ SubSeq(ws, i + 3, i + 5) = <<")", "and", "(">>
                /\ EndsInWordChar(ws[i + 6])
                /\ ws[i + 7] = "<="
                /\ IsDigits(ws[i + 8])}
    IN  IF S = {} THEN ws
        ELSE LET i == CHOOSE k \in S : \A j \in S : k <= j
                 T == {k \in DOMAIN ws : ws[k] = ws[i + 6]}
                 f == CHOOSE k \in T : \A j \in T : k <= j
             IN  [ws EXCEPT ![f] = ws[i]]

\* compiler.js 720-732: the variables read at the top of the formula
UsedVars(conds) ==
    LET found == Flatten([c \in DOMAIN conds |->
                    Flatten([i \in DOMAIN conds[c] |-> IdentsOf(conds[c][i])])])
    IN  AddAll(<<>>, SelectSeq(found,
            LAMBDA w : w \notin {"True", "False", "and", "or", "not"}))

\* compiler.js 779-810
BaseAmount(outs, schedMap) ==
    LET pay == SelectSeq(outs, LAMBDA o : o.type = "payment")
        sch == SelectSeq(outs, LAMBDA o : o.type = "schedule")
    IN  IF pay # <<>>
        THEN [type |-> "fixed", amount |-> pay[1].amount]
        ELSE IF sch # <<>>
        THEN LET schedule == ScheduleGet(schedMap, sch[1].schedule)
             IN  IF schedule.found /\ schedule.entries # <<>>
                 THEN [type |-> "schedule",
                       branches |-> [e \in DOMAIN schedule.entries |->
                          [test |-> parseScheduleCondition(schedule.entries[e].condition),
                           variable |-> EntryVariable(sch[1].schedule,
                                                      schedule.entries[e].condition)]]]
                 ELSE [type |-> "zero"]
        ELSE [type |-> "zero"]

\* the payment class written for a fixed payment or a schedule only, as in
\* the definition of compiler.js 240-263 that the later one replaces
generateScenarioCodeFirst(name, conds, outs, schedMap) ==
    LET reductionOutcomes == SelectSeq(outs, LAMBDA o : o.type = "reduction")
        hasPayment == \E i \in DOMAIN outs :
                          outs[i].type \in {"payment", "schedule"}
        eligible == [kind |-> "eligible",
                     className |-> Slug(name),
                     usedVars |-> UsedVars(conds),
                     conditions |-> [c \in DOMAIN conds |-> FixBetweenVariable(conds[c])]]
        payment == [kind |-> "payment",
                    className |-> Slug(name),
                    eligibleRef |-> Slug(name),
                    body |-> <<"eligible = person", "if not eligible: return 0",
                               "base_amount">>
                             \o (IF reductionOutcomes # <<>>
                                 THEN <<"income = person", "reductions">>
                                 ELSE <<>>)
                             \o <<"return base_amount">>,
                    base |-> BaseAmount(outs, schedMap),
                    reductions |-> [r \in DOMAIN reductionOutcomes |->
                        [threshold |-> reductionOutcomes[r].threshold,
                         cents |-> reductionOutcomes[r].cents]]]
    IN  IF hasPayment THEN <<eligible, payment>> ELSE <<eligible>>

\* compiler.js 700-827
generateScenarioCode(name, conds, outs, schedMap) ==
    LET reductionOutcomes == SelectSeq(outs, LAMBDA o : o.type = "reduction")
        hasPayment == \E i \in DOMAIN outs :
                          outs[i].type \in {"payment", "schedule", "reduction"}
        eligible == [kind |-> "eligible",
                     className |-> Slug(name),
                     usedVars |-> UsedVars(conds),
                     conditions |-> [c \in DOMAIN conds |-> FixBetweenVariable(conds[c])]]
        payment == [kind |-> "payment",
                    className |-> Slug(name),
                    eligibleRef |-> Slug(name),
                    body |-> <<"eligible = person", "if not eligible: return 0",
                               "base_amount">>
                             \o (IF reductionOutcomes # <<>>
                                 THEN <<"income = person", "reductions">>
                                 ELSE <<>>)
                             \o <<"return base_amount">>,
                    base |-> BaseAmount(outs, schedMap),
                    reductions |-> [r \in DOMAIN reductionOutcomes |->
                        [threshold |-> reductionOutcomes[r].threshold,
                         cents |-> reductionOutcomes[r].cents]]]
    IN  IF hasPayment THEN <<eligible, payment>> ELSE <<eligible>>

----------------------------------------------------------------------------
(* compileToOpenFisca *)

StripColon(w) ==
    CASE w = "single:" -> "single"
      [] w = "couple:" -> "couple"
      [] w = "true:" -> "true"
      [] w = "following:" -> "following"
      [] w = "5:" -> "5"
      [] OTHER -> w

\* condition.includes(':')
HasColon(ws) == \E i \in DOMAIN ws : EndsWithColon(ws[i])

\* the Map left as it was
MapSetNothing(schedMap, name) == schedMap

\* schedules.set(name, [])
MapSet(schedMap, name) ==
    IF \E k \in DOMAIN schedMap : schedMap[k].name = name
    THEN [k \in DOMAIN schedMap |->
            IF schedMap[k].name = name
            THEN [name |-> name, entries |-> <<>>] ELSE schedMap[k]]
    ELSE Append(schedMap, [name |-> name, entries |-> <<>>])

\* schedules.get(name).push(entry)
MapPush(schedMap, name, entry) ==
    [k \in DOMAIN schedMap |->
        IF schedMap[k].name = name
        THEN [schedMap[k] EXCEPT !.entries = Append(@, entry)] ELSE schedMap[k]]

\* the locals of one call (compiler.js 833-841); <<>> stands for null and ''
NewCompile ==
    [scenarios |-> <<>>, currentScenario |-> <<>>, currentSchedule |-> <<>>,
     variables |-> <<>>, conditions |-> <<>>, outcomes |-> <<>>,
     inConditions |-> TRUE, schedules |-> <<>>]

\* compiler.js 888-889, 894-895, 905-906
AddCondition(c, condition) ==
    [c EXCEPT !.conditions = Append(@, parseCondition(condition)),
              !.variables = extractVariables(condition, @)]

\* compiler.js 871-881
ScheduleEntryLine(c, toks) ==
    LET k == EntryColonAt(toks)
    IN  IF k = 0 THEN c
        ELSE [c EXCEPT !.schedules = MapPush(@, c.currentSchedule,
                [condition |-> SubSeq(toks, 2, k - 1) \o <<StripColon(toks[k])>>,
                 amount |-> Num(toks[k + 1]),
                 period |-> IF Len(toks) = k + 3 THEN toks[k + 3] ELSE "fortnight"])]

\* list items taken as conditions whatever inConditions is
ScenarioLineListAlways(c, toks) ==
    IF toks[1] \in {"When", "Given", "And"} /\ Len(toks) >= 2 /\ c.inConditions
    THEN IF ~HasColon(Tail(toks)) THEN AddCondition(c, Tail(toks)) ELSE c
    ELSE IF toks[1] = "Or" /\ c.inConditions
    THEN LET condition == IF Len(toks) >= 2 THEN Tail(toks) ELSE toks
         IN  IF ~HasColon(condition) THEN AddCondition(c, condition) ELSE c
    ELSE IF toks[1] \in {"Then", "And"} /\ Len(toks) >= 2
    THEN [c EXCEPT !.inConditions = FALSE,
                   !.outcomes = Append(@, parseOutcome(Tail(toks)))]
    ELSE IF toks[1] = "-"
    THEN AddCondition(c, Tail(toks))
    ELSE c

\* compiler.js 883-909
ScenarioLine(c, toks) ==
    IF toks[1] \in {"When", "Given", "And"} /\ Len(toks) >= 2 /\ c.inConditions
    THEN IF ~HasColon(Tail(toks)) THEN AddCondition(c, Tail(toks)) ELSE c
    ELSE IF toks[1] = "Or" /\ c.inConditions
    THEN LET condition == IF Len(toks) >= 2 THEN Tail(toks) ELSE toks
         IN  IF ~HasColon(condition) THEN AddCondition(c, condition) ELSE c
    ELSE IF toks[1] \in {"Then", "And"} /\ Len(toks) >= 2
    THEN [c EXCEPT !.inConditions = FALSE,
                   !.outcomes = Append(@, parseOutcome(Tail(toks)))]
    ELSE IF toks[1] = "-"
    THEN IF c.inConditions THEN AddCondition(c, Tail(toks)) ELSE c
    ELSE c

\* the callback of compiler.js 844-910 on one line
CompileLine(c, toks) ==
    IF toks = <<>> THEN c
    ELSE IF IsHeader(toks, "Scenario:")
    THEN [c EXCEPT
            !.scenarios = IF c.currentScenario # <<>>
                          THEN Append(@, [name |-> c.currentScenario,
                                          conditions |-> c.conditions,
                                          outcomes |-> c.outcomes])
                          ELSE @,
            !.currentScenario = BlockName(toks),
            !.conditions = <<>>,
            !.outcomes = <<>>,
            !.inConditions = TRUE,
            !.currentSchedule = <<>>]
    ELSE IF IsHeader(toks, "Definition:")
    THEN [c EXCEPT !.currentSchedule = <<>>]
    ELSE IF IsHeader(toks, "Schedule:")
    THEN [c EXCEPT !.currentSchedule = BlockName(toks),
                   !.schedules = MapSet(@, BlockName(toks))]
    ELSE IF c.currentSchedule # <<>> /\ toks[1] = "When" /\ Len(toks) >= 2
    THEN ScheduleEntryLine(c, toks)
    ELSE IF c.currentScenario # <<>>
    THEN ScenarioLine(c, toks)
    ELSE c

\* compiler.js 912-919
AllScenarios(c) ==
    IF c.currentScenario # <<>>
    THEN Append(c.scenarios, [name |-> c.currentScenario,
                              conditions |-> c.conditions,
                              outcomes |-> c.outcomes])
    ELSE c.scenarios

\* the scenario classes written before the schedule parameters
BuildOutputScenariosFirst(c, date) ==
    LET scs == AllScenarios(c)
    IN  <<[kind |-> "header", created |-> date]>>
        \o generateVariableDefinitions(c.variables)
        \o Flatten([k \in DOMAIN scs |->
              generateScenarioCode(scs[k].name, scs[k].conditions,
                                   scs[k].outcomes, c.schedules)])
        \o generateScheduleParameters(c.schedules)

\* compiler.js 921-956; date is new Date().toLocaleDateString('en-AU')
BuildOutput(c, date) ==
    LET scs == AllScenarios(c)
    IN  <<[kind |-> "header", created |-> date]>>
        \o generateVariableDefinitions(c.variables)
        \o generateScheduleParameters(c.schedules)
        \o Flatten([k \in DOMAIN scs |->
              generateScenarioCode(scs[k].name, scs[k].conditions,
                                   scs[k].outcomes, c.schedules)])

RECURSIVE CompileLines(_, _)
CompileLines(c, ls) ==
    IF ls = <<>> THEN c ELSE CompileLines(CompileLine(c, Head(ls).toks), Tail(ls))

\* compiler.js 830-957
compileToOpenFisca(text, date) ==
    BuildOutput(CompileLines(NewCompile, text), date)

----------------------------------------------------------------------------
(* One call of compileToOpenFisca as a state machine: the parse loop of
   compiler.js 843-910 one line at a time, then the assembly of 912-956. *)

MaxCompileLines == 4

Dates == {"05/11/2026", "06/11/2026"}

CompilerLines ==
    { L(<<"Scenario:", "S">>),
      L(<<"When", "age", "between", "16", "and", "24">>),
      L(<<"When", "age", "is", "less", "than", "24">>),
      L(<<"Then", "x", "is", "eligible">>),
      L(<<"Then", "payment", "is", "$1000", "per", "fortnight">>),
      L(<<"And", "payment", "reduces", "by", "50", "cents", "per", "dollar",
          "over", "$200">>),
      L(<<"And", "payment", "reduces", "by", "25", "cents", "per", "dollar",
          "over", "$100">>),
      L(<<"Schedule:", "N">>),
      L(<<"When", "single:", "$100">>),
      L(<<"Then", "rate", "is", "determined", "by", "N">>) }

CompilerDocuments == UNION {[1..n -> CompilerLines] : n \in 1..MaxCompileLines}

CompileLocals ==
    [scenarios |-> scenarios, currentScenario |-> currentScenario,
     currentSchedule |-> currentSchedule, variables |-> variables,
     conditions |-> conditions, outcomes |-> outcomes,
     inConditions |-> inConditions, schedules |-> scheduleMap]

SetCompileLocals(c) ==
    /\ scenarios' = c.scenarios
    /\ currentScenario' = c.currentScenario
    /\ currentSchedule' = c.currentSchedule
    /\ variables' = c.variables
    /\ conditions' = c.conditions
    /\ outcomes' = c.outcomes
    /\ inConditions' = c.inConditions
    /\ scheduleMap' = c.schedules

\* the state at entry of a call: compiler.js 831-841
CompilerInit ==
    /\ courgette \in CompilerDocuments
    /\ today \in Dates
    /\ cpc = "parse"
    /\ cidx = 0
    /\ scenarios = NewCompile.scenarios
    /\ currentScenario = NewCompile.currentScenario
    /\ currentSchedule = NewCompile.currentSchedule
    /\ variables = NewCompile.variables
    /\ conditions = NewCompile.conditions
    /\ outcomes = NewCompile.outcomes
    /\ inConditions = NewCompile.inConditions
    /\ scheduleMap = NewCompile.schedules
    /\ output = <<>>
    /\ results = <<>>
    /\ ValidatorUnused /\ WorkerUnused /\ GuessUnused

\* compiler.js 876: schedules.get(currentSchedule).push raises a TypeError
\* when the Map has no such key
PushThrows(c, toks) ==
    /\ toks # <<>>
    /\ ~IsHeader(toks, "Scenario:")
    /\ ~IsHeader(toks, "Definition:")
    /\ ~IsHeader(toks, "Schedule:")
    /\ c.currentSchedule # <<>>
    /\ EntryColonAt(toks) # 0
    /\ ~ScheduleGet(c.schedules, c.currentSchedule).found

\* compiler.js 843-910: lines.forEach, one line
ParseLine ==
    /\ cpc = "parse"
    /\ cidx < Len(courgette)
    /\ IF PushThrows(CompileLocals, courgette[cidx + 1].toks)
       THEN /\ cpc' = "threw"
            /\ UNCHANGED <<cidx, scenarios, currentScenario, currentSchedule,
                           variables, conditions, outcomes, inConditions,
                           scheduleMap>>
       ELSE /\ cidx' = cidx + 1
            /\ SetCompileLocals(CompileLine(CompileLocals, courgette[cidx + 1].toks))
            /\ cpc' = cpc
    /\ UNCHANGED <<courgette, today, output, results>>
    /\ UNCHANGED <<valVars, workerVars, guessVars>>

\* compiler.js 912-956: the last scenario is saved and the text is assembled
Assemble ==
    /\ cpc = "parse"
    /\ cidx = Len(courgette)
    /\ cpc' = "returned"
    /\ scenarios' = AllScenarios(CompileLocals)
    /\ output' = BuildOutput(CompileLocals, today)
    /\ UNCHANGED <<courgette, today, cidx, currentScenario, currentSchedule,
                   variables, conditions, outcomes, inConditions, scheduleMap,
                   results>>
    /\ UNCHANGED <<valVars, workerVars, guessVars>>

CompilerNext == ParseLine \/ Assemble

SpecCompile == CompilerInit /\ [][CompilerNext]_vars

Returned == cpc = "returned"

----------------------------------------------------------------------------
(* What the generated Python computes.  An eligibility formula returns the
   parenthesised conjuncts of compiler.js 734-749 joined by `and`; a payment
   formula runs the statements of compiler.js 812-823.  Amounts are held in
   hundredths, so that `cents / 100` stays an integer. *)

CmpOps == {"<", ">", "<=", ">=", "==", "!="}

IsOperand(w, env) == w \in DOMAIN env \/ IsDigits(w) \/ w \in {"True", "False"}

PyValue(w, env) ==
    IF w \in DOMAIN env THEN env[w]
    ELSE IF IsDigits(w) THEN Num(w)
    ELSE IF w = "True" THEN 1 ELSE 0

RECURSIVE Atoms(_)
\* the comparisons of one conjunct, split at each `) and (`
Atoms(ws) ==
    LET S == {i \in DOMAIN ws : i + 2 <= Len(ws)
                                /\ SubSeq(ws, i, i + 2) = <<")", "and", "(">>}
    IN  IF S = {} THEN <<ws>>
        ELSE LET i == CHOOSE k \in S : \A j \in S : k <= j
             IN  <<SubSeq(ws, 1, i - 1)>> \o Atoms(SubSeq(ws, i + 3, Len(ws)))

\* one comparison: "True", "False", or "SyntaxError" when Python rejects it
PyAtom(a, env) ==
    IF Len(a) = 1 /\ IsOperand(a[1], env)
    THEN IF PyValue(a[1], env) # 0 THEN "True" ELSE "False"
    ELSE IF Len(a) = 3 /\ IsOperand(a[1], env) /\ a[2] \in CmpOps
            /\ IsOperand(a[3], env)
    THEN LET x == PyValue(a[1], env)
             y == PyValue(a[3], env)
             r == CASE a[2] = "<" -> x < y
                    [] a[2] = ">" -> x > y
                    [] a[2] = "<=" -> x <= y
                    [] a[2] = ">=" -> x >= y
                    [] a[2] = "==" -> x = y
                    [] a[2] = "!=" -> x # y
         IN  IF r THEN "True" ELSE "False"
    ELSE "SyntaxError"

\* the conjunct `(${fixedCondition})` under the variable values env
PyCond(ws, env) ==
    LET as == Atoms(ws)
        vs == {PyAtom(as[i], env) : i \in DOMAIN as}
    IN  IF "SyntaxError" \in vs THEN "SyntaxError"
        ELSE IF vs = {"True"} THEN "True" ELSE "False"

\* the reduced amount without the floor
Max0Unclamped(x) == x

\* compiler.js 819: max(0, ...)
Max0(x) == IF x > 0 THEN x ELSE 0

RECURSIVE PyReductions(_, _, _)
\* compiler.js 816-819 as run by Python: base_amount in hundredths after the
\* `if income > threshold:` statements, in the order they were written
PyReductions(amount, reds, income) ==
    IF reds = <<>> THEN amount
    ELSE PyReductions(
            IF income > Head(reds).threshold
            THEN Max0(amount - (income - Head(reds).threshold) * Head(reds).cents)
            ELSE amount,
            Tail(reds), income)

----------------------------------------------------------------------------
(* The source document of a compile call, as a reader of the language sees it *)

CScenarioHeaders == {h \in DOMAIN courgette : IsHeader(courgette[h].toks, "Scenario:")}

\* the last line before the next Scenario header
CExtentEnd(h) ==
    LET S == {g \in CScenarioHeaders : g > h}
    IN  IF S = {} THEN Len(courgette) ELSE (CHOOSE g \in S : \A k \in S : g <= k) - 1

ScenarioNumber(h) == Cardinality({g \in CScenarioHeaders : g <= h})

\* where the n-th <scenario>_eligible class stands in the output
EligibleAt(n) ==
    CHOOSE i \in DOMAIN output :
        /\ output[i].kind = "eligible"
        /\ Cardinality({m \in 1..i : output[m].kind = "eligible"}) = n

IsConditionPhaseLine(j) ==
    /\ courgette[j].toks # <<>>
    /\ courgette[j].toks[1] \in {"When", "Given", "And"}

IsBetweenLine(j) ==
    LET t == courgette[j].toks
    IN  /\ Len(t) = 6
        /\ t[1] = "When" /\ IsIdentifier(t[2]) /\ t[3] = "between"
        /\ IsDigits(t[4]) /\ t[5] = "and" /\ IsDigits(t[6])

\* the `between` conditions of the scenario headed at h
BetweenLines(h) ==
    {j \in (h + 1)..CExtentEnd(h) :
        /\ IsBetweenLine(j)
        /\ \A m \in (h + 1)..(j - 1) : IsConditionPhaseLine(m)}

\* the position of line j's conjunct among the scenario's conditions
CondIndex(h, j) ==
    1 + Cardinality({m \in (h + 1)..(j - 1) : ~HasColon(courgette[m].toks)})

BetweenConjunct(h, j) ==
    output[EligibleAt(ScenarioNumber(h))].conditions[CondIndex(h, j)]

\* C6: every condition `v between L and H` of a scenario compiles to a
\* conjunct that is true for v = L and v = H and false for v = L-1 and
\* v = H+1.
C6_BetweenIsInclusiveRange ==
    Returned =>
        \A h \in CScenarioHeaders : \A j \in BetweenLines(h) :
            LET t == courgette[j].toks
                lo == Num(t[4])
                hi == Num(t[6])
                At(n) == PyCond(BetweenConjunct(h, j), [w \in {t[2]} |-> n])
            IN  /\ At(lo) = "True"
                /\ At(hi) = "True"
                /\ At(lo - 1) = "False"
                /\ At(hi + 1) = "False"

----------------------------------------------------------------------------
(* Reductions *)

Incomes == {0, 100, 150, 200, 400, 3000}

IsPaymentLine(j) ==
    courgette[j].toks = <<"Then", "payment", "is", "$1000", "per", "fortnight">>

IsReductionLine(j) ==
    LET t == courgette[j].toks
    IN  /\ Len(t) = 10
        /\ SubSeq(t, 1, 4) = <<"And", "payment", "reduces", "by">>
        /\ IsDigits(t[5])
        /\ SubSeq(t, 6, 9) = <<"cents", "per", "dollar", "over">>
        /\ IsAmountWord(t[10])

\* a scenario headed at h whose outcomes are the fixed payment of line p
\* followed by reductions up to the end of the scenario
FixedThenReductions(h, p) ==
    /\ h \in CScenarioHeaders
    /\ p \in (h + 1)..(CExtentEnd(h) - 1)
    /\ IsPaymentLine(p)
    /\ \A m \in (h + 1)..(p - 1) :
          /\ IsConditionPhaseLine(m)
          /\ ~IsHeader(courgette[m].toks, "Schedule:")
    /\ \A m \in (p + 1)..CExtentEnd(h) : IsReductionLine(m)

\* the <scenario>_payment class of the scenario headed at h
PaymentDecl(h) == output[EligibleAt(ScenarioNumber(h)) + 1]

RECURSIVE Chain(_, _, _, _, _)
\* the running amount, in hundredths, after the reductions written on lines
\* from..to in that order; with guarded, a reduction applies only to an
\* income above its threshold
Chain(amount, from, to, income, guarded) ==
    IF from > to THEN amount
    ELSE LET cents == Num(courgette[from].toks[5])
             threshold == Num(courgette[from].toks[10])
             reduced == Max0(amount - (income - threshold) * cents)
         IN  Chain(IF guarded /\ income <= threshold THEN amount ELSE reduced,
                   from + 1, to, income, guarded)

PaymentFormulaIs(h, p, guarded) ==
    LET d == PaymentDecl(h)
    IN  /\ d.kind = "payment"
        /\ d.base = [type |-> "fixed", amount |-> 1000]
        /\ \A income \in Incomes :
              PyReductions(d.base.amount * 100, d.reductions, income)
                = Chain(1000 * 100, p + 1, CExtentEnd(h), income, guarded)

\* C7 as stated: for a fixed payment followed by reductions, the payment
\* formula applies every reduction, in declaration order, as
\* amount <- max(0, amount - (income - threshold) * cents/100), whatever the
\* income.
C7_EveryReductionAlwaysApplies ==
    Returned =>
        \A h \in DOMAIN courgette : \A p \in DOMAIN courgette :
            FixedThenReductions(h, p) => PaymentFormulaIs(h, p, FALSE)

\* C7 amended: for a fixed payment followed by reductions, the payment
\* formula applies the reductions in declaration order, each as
\* amount <- max(0, amount - (income - threshold) * cents/100) when the income
\* is above that reduction's threshold and leaving the amount unchanged
\* otherwise; $1000 reduced by 50 cents per dollar over $200 gives 900 for an
\* income of 400.
C7_ReductionsApplyAboveThreshold ==
    Returned =>
        \A h \in DOMAIN courgette : \A p \in DOMAIN courgette :
            FixedThenReductions(h, p) =>
                /\ PaymentFormulaIs(h, p, TRUE)
                /\ (/\ CExtentEnd(h) = p + 1
                    /\ courgette[p + 1].toks[5] = "50"
                    /\ courgette[p + 1].toks[10] = "$200")
                   => PyReductions(PaymentDecl(h).base.amount * 100,
                                   PaymentDecl(h).reductions, 400) = 900 * 100

\* a compiled scenario with a fixed payment and two different reductions
C7_Witness ==
    /\ Returned
    /\ \E h \in DOMAIN courgette : \E p \in DOMAIN courgette :
          /\ FixedThenReductions(h, p)
          /\ CExtentEnd(h) = p + 2
          /\ courgette[p + 1] # courgette[p + 2]
          /\ Len(PaymentDecl(h).reductions) = 2
          /\ PyReductions(100000, PaymentDecl(h).reductions, 400) < 100000

----------------------------------------------------------------------------
(* Two calls of compileToOpenFisca on the same text, the clock running *)

MaxCalls == 2

CompileTwiceInit ==
    /\ courgette \in CompilerDocuments
    /\ today = "05/11/2026"
    /\ cpc = "idle"
    /\ cidx = 0
    /\ scenarios = <<>> /\ currentScenario = <<>> /\ currentSchedule = <<>>
    /\ variables = <<>> /\ conditions = <<>> /\ outcomes = <<>>
    /\ inConditions = TRUE /\ scheduleMap = <<>>
    /\ output = <<>>
    /\ results = <<>>
    /\ ValidatorUnused /\ WorkerUnused /\ GuessUnused

\* compiler.js 830-957: one whole call on the text
Call ==
    /\ Len(results) < MaxCalls
    /\ output' = compileToOpenFisca(courgette, today)
    /\ results' = Append(results, output')
    /\ UNCHANGED <<courgette, today, cpc, cidx, scenarios, currentScenario,
                   currentSchedule, variables, conditions, outcomes,
                   inConditions, scheduleMap>>
    /\ UNCHANGED <<valVars, workerVars, guessVars>>

\* midnight passes: new Date() (compiler.js 924) reads another day
ClockTick ==
    /\ today = "05/11/2026"
    /\ today' = "06/11/2026"
    /\ UNCHANGED <<courgette, cpc, cidx, scenarios, currentScenario,
                   currentSchedule, variables, conditions, outcomes,
                   inConditions, scheduleMap, output, results>>
    /\ UNCHANGED <<valVars, workerVars, guessVars>>

CompileTwiceNext == Call \/ ClockTick

SpecCompileTwice == CompileTwiceInit /\ [][CompileTwiceNext]_vars

\* C8: two calls of compileToOpenFisca on the same text return the same
\* output, whenever each of them is made.
C8_SameTextSameOutput ==
    Len(results) >= 2 => results[1] = results[2]

----------------------------------------------------------------------------
(* The validation worker: validator.js 582-587.  Messages are handled one at
   a time, in the order they were posted. *)

MaxMsgs == 3

\* the text-change events of one session of the editor
MaxEdits == 2

\* the texts the page posts
TextNoComparison == <<L(<<"Scenario:", "S">>), L(<<"When", "foo", "bar">>)>>

TextClean ==
    <<L(<<"Scenario:", "S">>), L(<<"When", "age", "<", "5">>),
      L(<<"Then", "x", "is", "eligible">>)>>

TextListItem == <<L(<<"Scenario:", "S">>), L(<<"-", "foo", "bar">>)>>

TextSchedule ==
    <<L(<<"Schedule:", "N">>), L(<<"Scenario:", "S">>),
      L(<<"When", "age", "<", "5">>),
      L(<<"Then", "rate", "is", "determined", "by", "N">>)>>

TextNoSchedule ==
    <<L(<<"Scenario:", "S">>), L(<<"When", "age", "<", "5">>),
      L(<<"Then", "rate", "is", "determined", "by", "N">>)>>

WorkerTexts ==
    {TextNoComparison, TextClean, TextListItem, TextSchedule, TextNoSchedule}

RECURSIVE SecondPassFrom(_, _, _, _)
\* validator.js 50-282: the loop from line lineNum on
SecondPassFrom(s, ls, lineNum, scheds) ==
    IF lineNum > Len(ls) THEN s
    ELSE SecondPassFrom(SecondPassLine(s, ls[lineNum], lineNum, scheds),
                        ls, lineNum + 1, scheds)

\* validator.js 20-297: the locals as the call leaves them
ValidateRun(ls) ==
    LET s == SecondPassFrom(NewCall, ls, 1, Collected(ls, "Schedule:"))
    IN  [s EXCEPT !.errors = FinalErrors(s)]

validateCourgette(ls) == ValidateRun(ls).errors

\* a message queue between the page and the worker: postMessage adds the
\* message after the ones already waiting
PostedFirst(queue, message) == <<message>> \o queue

Posted(queue, message) == Append(queue, message)

WorkerInit ==
    /\ inbox = <<>>
    /\ posted = 0
    /\ replies = <<>>
    /\ EditorUnused
    /\ ValidatorUnused /\ CompilerUnused /\ GuessUnused

\* the page: validationWorker.postMessage({ text })
PostMessage ==
    /\ posted < MaxMsgs
    /\ \E t \in WorkerTexts : inbox' = Posted(inbox, [text |-> t, req |-> posted + 1])
    /\ posted' = posted + 1
    /\ UNCHANGED <<replies, editorText, edits, updateTimer, timers, outbox,
                   applied, wordCount>>
    /\ UNCHANGED <<valVars, compVars, guessVars>>

\* validator.js 583-587: the listener runs validateCourgette on the text of
\* the message and posts the errors back
HandleMessage ==
    /\ inbox # <<>>
    /\ LET text == Head(inbox).text
           s == ValidateRun(text)
       IN  /\ lines' = text
           /\ definitions' = Collected(text, "Definition:")
           /\ schedules' = Collected(text, "Schedule:")
           /\ idx' = Len(text)
           /\ SetLocals(s)
           /\ replies' = Append(replies, [text |-> text, errors |-> s.errors])
           /\ outbox' = Posted(outbox, [errors |-> s.errors, req |-> Head(inbox).req])
    /\ inbox' = Tail(inbox)
    /\ UNCHANGED <<pc, posted, editorText, edits, updateTimer, timers, applied,
                   wordCount>>
    /\ UNCHANGED <<compVars, guessVars>>

WorkerNext == PostMessage \/ HandleMessage

SpecWorker == WorkerInit /\ [][WorkerNext]_vars

\* the diagnostics of each text, read off validator.js
ErrorsOf(text) ==
    CASE text = TextNoComparison ->
            <<Diag(2, "error", MsgNoComparison, <<>>),
              Diag(1, "error", MsgMissing, <<>>)>>
      [] text = TextClean -> <<>>
      [] text = TextListItem ->
            <<Diag(2, "error", MsgListItem, <<>>),
              Diag(2, "error", MsgNoComparison, <<>>),
              Diag(1, "error", MsgMissing, <<>>)>>
      [] text = TextSchedule -> <<>>
      [] text = TextNoSchedule -> <<Diag(3, "error", MsgNoSchedule, <<"N">>)>>

\* C9: the reply to each message is the diagnostics of that message's text
\* alone, whatever messages came before, and two requests with the same text
\* get the same diagnostics.
C9_RepliesDependOnTextOnly ==
    /\ \A i \in DOMAIN replies : replies[i].errors = ErrorsOf(replies[i].text)
    /\ \A i \in DOMAIN replies : \A j \in DOMAIN replies :
          replies[i].text = replies[j].text => replies[i].errors = replies[j].errors

\* the same text answered twice, with diagnostics, after a different text
C9_Witness ==
    /\ Len(replies) = 3
    /\ replies[1].text = replies[3].text
    /\ replies[2].text # replies[1].text
    /\ replies[1].errors # <<>>
    /\ replies[2].errors # <<>>

----------------------------------------------------------------------------
(* guessVariableType called on a name *)

MaxFragments == 2

StrStudent == <<"s", "t", "u", "d", "e", "n", "t">>
StrResidence == <<"r", "e", "s", "i", "d", "e", "n", "c", "e", "_">>

\* the pieces the names are made of
Fragments ==
    { StrIs, StrHas, StrAge, StrIncome, StrYears, StrResidence, StrStudent,
      StrStatus, StrEligible, StrCitizen, <<"x">>, <<"A">> }

RECURSIVE Concat(_)
Concat(ss) == IF ss = <<>> THEN <<>> ELSE Head(ss) \o Concat(Tail(ss))

GuessNames ==
    {Concat(fs) : fs \in UNION {[1..n -> Fragments] : n \in 1..MaxFragments}}

GuessInit ==
    /\ guessName \in GuessNames
    /\ guessed = <<>>
    /\ ValidatorUnused /\ CompilerUnused /\ WorkerUnused

\* a call of the guessVariableType in effect
Guess ==
    /\ guessed = <<>>
    /\ guessed' = <<guessVariableType(guessName)>>
    /\ UNCHANGED guessName
    /\ UNCHANGED <<valVars, compVars, workerVars>>

GuessNext == Guess

SpecGuess == GuessInit /\ [][GuessNext]_vars

\* a name the rules before the money rule do not match
BeforeMoneyRule(name) ==
    LET n == [i \in DOMAIN name |-> LowerChar(name[i])]
    IN  \/ Includes(n, StrAge)
        \/ StartsWith(n, StrIs) \/ StartsWith(n, StrHas)
        \/ Includes(n, StrEligible) \/ n = StrStudying
        \/ Includes(n, StrResident) \/ Includes(n, StrCitizen)
        \/ Includes(n, StrYears)
        \/ Includes(n, StrStatus) \/ Includes(n, StrType)
        \/ Includes(n, StrCategory)

\* C10: the guessVariableType in effect gives {int, YEAR} for
\* residence_years, {bool, DAY} for is_student, and {float, DAY} for a name
\* that contains `income` and matches none of the earlier rules.
C10_GuessFollowsSpecifiedRules ==
    guessed # <<>> =>
        /\ guessName = StrResidence \o StrYears
              => guessed[1] = [type |-> "int", period |-> "YEAR"]
        /\ guessName = StrIs \o StrStudent
              => guessed[1] = [type |-> "bool", period |-> "DAY"]
        /\ (Includes(guessName, StrIncome) /\ ~BeforeMoneyRule(guessName))
              => guessed[1] = [type |-> "float", period |-> "DAY"]

----------------------------------------------------------------------------
(* compileToOpenFisca on documents that use quoted operands, Or and groups *)

\* the state at entry of a call on one of the documents docs
CompileStart(docs) ==
    /\ courgette \in docs
    /\ today \in Dates
    /\ cpc = "parse"
    /\ cidx = 0
    /\ scenarios = NewCompile.scenarios
    /\ currentScenario = NewCompile.currentScenario
    /\ currentSchedule = NewCompile.currentSchedule
    /\ variables = NewCompile.variables
    /\ conditions = NewCompile.conditions
    /\ outcomes = NewCompile.outcomes
    /\ inConditions = NewCompile.inConditions
    /\ scheduleMap = NewCompile.schedules
    /\ output = <<>>
    /\ results = <<>>
    /\ ValidatorUnused /\ WorkerUnused /\ GuessUnused

LogicLines ==
    { L(<<"Scenario:", "S">>),
      L(<<"When", "x", "is", "\"a\"">>),
      L(<<"When", "age", "<", "24">>),
      L(<<"Or", "income", "<", "100">>),
      L(<<"When", "any", "of", "these", "are", "true:">>),
      L(<<"-", "age", "<", "24">>),
      L(<<"-", "income", "<", "100">>),
      L(<<"Then", "x", "is", "eligible">>) }

LogicDocuments == UNION {[1..n -> LogicLines] : n \in 1..MaxCompileLines}

SpecCompileLogic == CompileStart(LogicDocuments) /\ [][CompilerNext]_vars

\* the lines of the scenario headed at h that come before its first Then
ConditionPhase(h) ==
    {j \in (h + 1)..CExtentEnd(h) :
        \A m \in (h + 1)..j : courgette[m].toks[1] # "Then"}

\* the conditions of the scenario headed at h: the lines of its condition
\* phase other than the group openers
ConditionsOf(h) == {j \in ConditionPhase(h) : ~HasColon(courgette[j].toks)}

HasEligibilityOutcome(h) ==
    \E j \in (h + 1)..CExtentEnd(h) :
        courgette[j].toks = <<"Then", "x", "is", "eligible">>

\* the variable a condition `<keyword> v <op> <operand>` is about
ConditionVariable(j) == courgette[j].toks[2]

EligibleDecl(h) == output[EligibleAt(ScenarioNumber(h))]

\* C11: for a scenario with a condition and an eligibility outcome, the
\* eligibility formula reads exactly the variables of the scenario's
\* conditions, each once, and nothing else (not a word of a quoted operand).
C11_OneReferencePerConditionVariable ==
    Returned =>
        \A h \in CScenarioHeaders :
            (ConditionsOf(h) # {} /\ HasEligibilityOutcome(h)) =>
                LET used == EligibleDecl(h).usedVars
                IN  /\ \A i \in DOMAIN used : \A k \in DOMAIN used :
                          used[i] = used[k] => i = k
                    /\ {used[i] : i \in DOMAIN used}
                         = {ConditionVariable(j) : j \in ConditionsOf(h)}

----------------------------------------------------------------------------
(* compileToOpenFisca on documents that interleave the three kinds of block *)

LayoutLines ==
    { L(<<"Scenario:", "S">>),
      L(<<"Scenario:", "T">>),
      L(<<"Scenario:">>),
      L(<<"Schedule:", "N">>),
      L(<<"Definition:", "D">>),
      L(<<"When", "age", "<", "24">>),
      L(<<"When", "single:", "$100">>),
      L(<<"Then", "x", "is", "eligible">>),
      L(<<"Then", "payment", "is", "$1000", "per", "fortnight">>) }

LayoutDocuments == UNION {[1..n -> LayoutLines] : n \in 1..MaxCompileLines}

SpecCompileLayout == CompileStart(LayoutDocuments) /\ [][CompilerNext]_vars

\* the place of a declaration in the layout
LayoutRank(kind) ==
    CASE kind = "header" -> 0
      [] kind = "variable" -> 1
      [] kind = "schedule_parameter" -> 2
      [] kind \in {"eligible", "payment"} -> 3

\* the class name a named Scenario header stands for
ClassOfHeader(j) ==
    CASE courgette[j].toks[2] = "S" -> <<"s">>
      [] courgette[j].toks[2] = "T" -> <<"t">>

RECURSIVE HeaderClasses(_)
\* the class names of the named Scenario headers from line j on, in order
HeaderClasses(j) ==
    IF j > Len(courgette) THEN <<>>
    ELSE (IF courgette[j].toks[1] = "Scenario:" /\ Len(courgette[j].toks) = 2
          THEN <<ClassOfHeader(j)>> ELSE <<>>) \o HeaderClasses(j + 1)

EligibleClasses ==
    LET es == SelectSeq(output, LAMBDA d : d.kind = "eligible")
    IN  [i \in DOMAIN es |-> es[i].className]

\* C12: the output is the header, then the variable declarations, then the
\* schedule declarations, then the scenario declarations in the order of
\* their Scenario headers in the source, however the blocks are interleaved.
C12_OutputLayout ==
    Returned =>
        /\ output[1].kind = "header"
        /\ \A i \in DOMAIN output : i > 1 => output[i].kind # "header"
        /\ \A i \in DOMAIN output : \A j \in DOMAIN output :
              i < j => LayoutRank(output[i].kind) <= LayoutRank(output[j].kind)
        /\ EligibleClasses = HeaderClasses(1)
        /\ \A i \in DOMAIN output :
              output[i].kind = "payment" =>
                  /\ output[i - 1].kind = "eligible"
                  /\ output[i - 1].className = output[i].className

\* a schedule declared between two scenarios of different names, both compiled
C12_Witness ==
    /\ Returned
    /\ EligibleClasses = << <<"t">>, <<"s">> >>
    /\ \E i \in DOMAIN output : output[i].kind = "schedule_parameter"
    /\ \E a \in DOMAIN courgette : \E b \in DOMAIN courgette :
          \E n \in DOMAIN courgette :
              /\ a < n /\ n < b
              /\ courgette[a].toks = <<"Scenario:", "T">>
              /\ courgette[n].toks = <<"Schedule:", "N">>
              /\ courgette[b].toks = <<"Scenario:", "S">>

----------------------------------------------------------------------------
(* validateCourgette on texts at the edges of the language *)

EdgeLines ==
    { L(<<>>),
      L(<<"Scenario:">>),
      L(<<"Definition:">>),
      L(<<"Schedule:">>),
      L(<<"Scenario:", "S">>),
      L(<<"When", "age", "<", "5">>),
      L(<<"-", "foo", "bar">>),
      L(<<"Then", "x", "is", "eligible">>),
      L(<<"foo", "bar">>) }

EdgeDocuments == UNION {[1..n -> EdgeLines] : n \in 1..MaxLines}

ValidatorStart(docs) ==
    /\ lines \in docs
    /\ pc = "start"
    /\ idx = 0
    /\ currentBlock = NewCall.currentBlock
    /\ blockStartLine = NewCall.blockStartLine
    /\ hasConditions = NewCall.hasConditions
    /\ hasOutcomes = NewCall.hasOutcomes
    /\ expectingListItems = NewCall.expectingListItems
    /\ errors = NewCall.errors
    /\ definitions = {}
    /\ schedules = {}
    /\ CompilerUnused /\ WorkerUnused /\ GuessUnused

\* a call runs to its end: forEach visits every line, nothing waits
SpecValidatorEdge ==
    ValidatorStart(EdgeDocuments) /\ [][ValidatorNext]_vars /\ WF_vars(ValidatorNext)

IsDiagnostic(d) ==
    /\ d.line \in 1..Len(lines)
    /\ d.severity \in {"error", "warning", "info"}

\* C13: every call of validateCourgette comes to its end without an
\* exception and returns a list of diagnostics, which may be empty.
C13_AlwaysReturnsList ==
    <>(pc = "done" /\ \A i \in DOMAIN errors : IsDiagnostic(errors[i]))

\* a list item before any block, then a scenario without a name that the
\* text ends in
C13_Witness ==
    /\ pc = "done"
    /\ Len(lines) >= 2
    /\ lines[1].toks = <<"-", "foo", "bar">>
    /\ lines[Len(lines)].toks = <<"Scenario:">>
    /\ \E i \in DOMAIN errors : errors[i].message = MsgScenarioName
    /\ \E i \in DOMAIN errors : errors[i].message = MsgMissing

----------------------------------------------------------------------------
(* compileToOpenFisca on documents with constructs it does not recognise *)

DegradeLines ==
    { L(<<"Scenario:", "S">>),
      L(<<"Scenario:", "T">>),
      L(<<"Schedule:", "N">>),
      L(<<"When", "single:", "$100">>),
      L(<<"When", "foo", "bar">>),
      L(<<"Then", "foo", "bar">>),
      L(<<"Then", "rate", "is", "determined", "by", "N">>),
      L(<<"Then", "rate", "is", "determined", "by", "M">>),
      L(<<"Then", "x", "is", "eligible">>) }

DegradeDocuments == UNION {[1..n -> DegradeLines] : n \in 1..MaxCompileLines}

SpecCompileDegrade == CompileStart(DegradeDocuments) /\ [][CompilerNext]_vars

IsRateLine(j) ==
    /\ Len(courgette[j].toks) = 6
    /\ SubSeq(courgette[j].toks, 1, 5) = <<"Then", "rate", "is", "determined", "by">>

\* the rate lines up to the next Scenario header: the schedule outcomes of
\* the scenario headed at h
RateLines(h) == {j \in (h + 1)..CExtentEnd(h) : IsRateLine(j)}

\* the last header before line j (0 when there is none)
HeaderBefore(j) ==
    LET S == {g \in 1..(j - 1) : courgette[g].toks[1] \in {"Scenario:", "Schedule:"}}
    IN  IF S = {} THEN 0 ELSE CHOOSE g \in S : \A k \in S : k <= g

\* the well-formed entry lines of the last declaration of schedule name
EntriesOf(name) ==
    {j \in DOMAIN courgette :
        /\ courgette[j].toks = <<"When", "single:", "$100">>
        /\ HeaderBefore(j) # 0
        /\ courgette[HeaderBefore(j)].toks = <<"Schedule:", name>>
        /\ \A g \in DOMAIN courgette :
              courgette[g].toks = <<"Schedule:", name>> => g <= HeaderBefore(j)}

\* what follows the eligibility class of the scenario headed at h
AfterEligible(h) ==
    LET i == EligibleAt(ScenarioNumber(h)) + 1
    IN  IF i \in DOMAIN output THEN output[i]
        ELSE [kind |-> "nothing", base |-> [type |-> "nothing"]]

Degrades ==
    /\ EligibleClasses = HeaderClasses(1)
    /\ Cardinality({i \in DOMAIN output : output[i].kind = "schedule_parameter"})
         = Cardinality(EntriesOf("N"))
    /\ \A h \in CScenarioHeaders :
          IF RateLines(h) = {}
          THEN AfterEligible(h).kind # "payment"
          ELSE LET first == CHOOSE j \in RateLines(h) : \A k \in RateLines(h) : j <= k
               IN  /\ AfterEligible(h).kind = "payment"
                   /\ AfterEligible(h).base.type =
                        (IF EntriesOf(courgette[first].toks[6]) = {}
                         THEN "zero" ELSE "schedule")

\* C14: no call of compileToOpenFisca raises an exception, a call that has
\* not returned has a line to read or the output to assemble, and in what it
\* returns an outcome of no known shape generates nothing, a reference to a schedule
\* that is undeclared or has no entries generates a base amount of 0, a
\* schedule line that is not an entry is skipped, and every scenario has its
\* eligibility class.
C14_DegradesWithoutAborting ==
    /\ cpc # "threw"
    /\ cpc = "parse" => cidx <= Len(courgette)
    /\ Returned => Degrades

\* a compiled scenario that refers to a schedule declared with a line that
\* is not an entry, and so without entries
C14_Witness ==
    /\ Returned
    /\ \E h \in CScenarioHeaders :
          /\ RateLines(h) # {}
          /\ \A j \in RateLines(h) : courgette[j].toks[6] = "N"
          /\ AfterEligible(h).base.type = "zero"
    /\ \E j \in DOMAIN courgette :
          /\ courgette[j].toks = <<"When", "foo", "bar">>
          /\ HeaderBefore(j) # 0
          /\ courgette[HeaderBefore(j)].toks = <<"Schedule:", "N">>

----------------------------------------------------------------------------
(* The positions of the diagnostics.  A line is its tab, if it has one, its
   indentation and its words with one space between them; each errors.push of
   validator.js computes column, startOffset and endOffset from the line. *)

Spaces(n) == [i \in 1..n |-> " "]

RECURSIVE JoinWords(_)
\* the characters of words separated by single spaces
JoinWords(ws) ==
    IF ws = <<>> THEN <<>>
    ELSE IF Len(ws) = 1 THEN Chars(ws[1])
    ELSE Chars(ws[1]) \o <<" ">> \o JoinWords(Tail(ws))

\* the characters of a line
LineChars(line) ==
    (IF line.tab THEN <<"\t">> ELSE <<>>) \o Spaces(line.indent) \o JoinWords(line.toks)

\* validator.js 52: line.match(/^(\s*)/)[1].length
leadingSpaces(line) == line.indent + (IF line.tab THEN 1 ELSE 0)

\* the offset computed without the newline characters
getOffsetNoNewline(ls, lineIdx, column) ==
    SeqSum([i \in 1..lineIdx |-> Len(LineChars(ls[i]))]) + column

\* validator.js 574-580; lineIdx counts from 0
getOffset(ls, lineIdx, column) ==
    SeqSum([i \in 1..lineIdx |-> Len(LineChars(ls[i])) + 1]) + column

\* String.indexOf of the k-th word of ws in the phrase ws
WordPos(ws, k) == SeqSum([i \in 1..(k - 1) |-> Len(Chars(ws[i])) + 1])

\* the column, startOffset and endOffset pushed with the diagnostic d
Position(d, ls) ==
    LET line == ls[d.line]
        toks == line.toks
        lead == leadingSpaces(line)
        phrase == Tail(toks)
        keywordLen == Len(Chars(toks[1]))
        \* validator.js 159, 193: columnOffset of validateCondition
        condOffset == IF toks[1] = "-" THEN lead + 3 ELSE keywordLen + 1
        \* validator.js 214: trimmed.indexOf(outcome) + 1
        outOffset == keywordLen + 2
        between == CHOOSE k \in DOMAIN phrase : Lower(phrase[k]) = "between"
        At(col, from, to) ==
            [column |-> col,
             startOffset |-> getOffset(ls, d.line - 1, from),
             endOffset |-> getOffset(ls, d.line - 1, to)]
    IN  CASE d.message = MsgTabs -> At(1, 0, 1)
          [] d.message = MsgMissing -> At(1, 0, Len(LineChars(line)))
          [] d.message \in {MsgScenarioName, MsgScheduleName} ->
                At(10, 9, Len(LineChars(line)))
          [] d.message = MsgDefinitionName -> At(12, 11, Len(LineChars(line)))
          [] d.message = MsgScenarioCap ->
                At(10, 9, 9 + Len(JoinWords(BlockName(toks))))
          [] d.message = MsgOrFirst -> At(1, 0, keywordLen)
          [] d.message = MsgListItem -> At(lead + 1, lead, lead + 2)
          [] d.message \in {MsgNoComparison, MsgQuotes} ->
                At(condOffset, condOffset - 1,
                   condOffset - 1 + Len(JoinWords(phrase)))
          [] d.message = MsgBetween ->
                At(condOffset + WordPos(phrase, between),
                   condOffset - 1 + WordPos(phrase, between),
                   condOffset - 1 + WordPos(phrase, between) + 7)
          [] d.message = MsgThenFirst -> At(1, 0, 4)
          [] d.message = MsgNoSchedule ->
                LET at == WordPos(phrase, Len(phrase) - Len(d.arg) + 1)
                IN  At(outOffset + at, outOffset - 1 + at,
                       outOffset - 1 + at + Len(JoinWords(d.arg)))
          [] d.message = MsgUnknownOutcome ->
                At(outOffset, outOffset - 1, outOffset - 1 + Len(JoinWords(phrase)))
          [] d.message \in {MsgExpected, MsgEntryFormat, MsgEntryExpected} ->
                At(1, 0, Len(JoinWords(toks)))

Indented(n, ts) == [indent |-> n, tab |-> FALSE, toks |-> ts]

OffsetLines ==
    { L(<<>>),
      L(<<"Scenario:", "S">>),
      L(<<"When", "foo", "bar">>),
      Indented(2, <<"When", "foo", "bar">>),
      Indented(2, <<"-", "foo", "bar">>),
      L(<<"When", "age", "between", "5">>),
      [indent |-> 0, tab |-> TRUE, toks |-> <<"When", "age", "<", "5">>],
      L(<<"Then", "foo", "bar">>),
      L(<<"Then", "rate", "is", "determined", "by", "N">>),
      Indented(2, <<"Then", "rate", "is", "determined", "by", "N">>) }

OffsetDocuments == UNION {[1..n -> OffsetLines] : n \in 1..MaxLines}

SpecValidatorOffsets == ValidatorStart(OffsetDocuments) /\ [][ValidatorNext]_vars

\* the characters of the text before line j, newlines included
LineStart(j) == SeqSum([i \in 1..(j - 1) |-> Len(LineChars(lines[i])) + 1])

\* C15: every diagnostic has 1 <= line <= number of lines, column >= 1,
\* 0 <= startOffset <= endOffset, a severity of error, warning or info, and
\* startOffset = (the lengths of the lines before it, plus one each)
\* + column - 1.
C15_PositionsAreConsistent ==
    Done =>
        \A i \in DOMAIN errors :
            LET d == errors[i]
                p == Position(d, lines)
            IN  /\ d.line \in 1..Len(lines)
                /\ p.column >= 1
                /\ 0 <= p.startOffset /\ p.startOffset <= p.endOffset
                /\ d.severity \in {"error", "warning", "info"}
                /\ p.startOffset = LineStart(d.line) + p.column - 1

\* a diagnostic on a later, indented line at a column past the first
C15_Witness ==
    /\ Done
    /\ \E i \in DOMAIN errors :
          /\ errors[i].line >= 2
          /\ lines[errors[i].line].indent = 2
          /\ Position(errors[i], lines).column > 1
          /\ Position(errors[i], lines).startOffset > 12

RECURSIVE TextOf(_)
\* lines.join('\n'): the text the lines were split from
TextOf(ls) ==
    IF ls = <<>> THEN <<>>
    ELSE IF Len(ls) = 1 THEN LineChars(ls[1])
    ELSE LineChars(ls[1]) \o <<"\n">> \o TextOf(Tail(ls))

\* text.substring(from, to)
Substring(text, from, to) ==
    SubSeq(text, from + 1, IF to <= Len(text) THEN to ELSE Len(text))

\* the messages of the diagnostics that are about a phrase of their line
PhraseMessages == {MsgNoComparison, MsgQuotes, MsgBetween, MsgNoSchedule, MsgUnknownOutcome}

\* the phrase the diagnostic d is about
PhraseOf(d) ==
    CASE d.message \in {MsgNoComparison, MsgQuotes, MsgUnknownOutcome} ->
            JoinWords(Tail(lines[d.line].toks))
      [] d.message = MsgBetween -> Chars("between")
      [] d.message = MsgNoSchedule -> JoinWords(d.arg)

\* C16: for every diagnostic about a phrase of a line, the characters of the
\* text from startOffset up to endOffset are that phrase, whatever the
\* indentation of the line.
C16_SpanIsThePhrase ==
    Done =>
        \A i \in DOMAIN errors :
            errors[i].message \in PhraseMessages =>
                LET p == Position(errors[i], lines)
                IN  Substring(TextOf(lines), p.startOffset, p.endOffset)
                      = PhraseOf(errors[i])

----------------------------------------------------------------------------
(* The editor page (editor.js 181-232) with its validation worker.  The page
   posts the text to the worker on every update and shows each reply as it
   arrives; the two message queues deliver in the order of posting.  The
   field req of a message is the number of its request: the program's
   messages do not carry it, it is recorded here to state the order. *)

\* deltaToCourgette (editor.js 148-179) ends every line with '\n', so the
\* text of an empty editor splits into two empty lines
EmptyText == <<L(<<>>), L(<<>>)>>

\* the texts the editor can hold: each ends with the empty line after the
\* last '\n'
EditorTexts == {EmptyText} \cup { t \o <<L(<<>>)>> : t \in WorkerTexts }

RECURSIVE WordsOf(_)
\* editor.js 192: the number of words of the text
WordsOf(text) ==
    IF text = <<>> THEN 0 ELSE Len(Head(text).toks) + WordsOf(Tail(text))

\* editor.js 188-211: updateEditor, on date
UpdateEditor(text, date) ==
    /\ wordCount' = WordsOf(text)
    /\ inbox' = Posted(inbox, [text |-> text, req |-> posted + 1])
    /\ posted' = posted + 1
    /\ courgette' = text
    /\ today' = date
    /\ output' = compileToOpenFisca(text, date)
    /\ UNCHANGED <<cpc, cidx, scenarios, currentScenario, currentSchedule,
                   variables, conditions, outcomes, inConditions, scheduleMap,
                   results>>
    /\ UNCHANGED <<replies, outbox, applied>>
    /\ UNCHANGED <<valVars, guessVars>>

\* the page once its script has run: editor.js 294 has called updateEditor
\* on the empty editor
EditorInit ==
    /\ editorText = EmptyText
    /\ edits = 0
    /\ wordCount = WordsOf(EmptyText)
    /\ inbox = <<[text |-> EmptyText, req |-> 1]>>
    /\ posted = 1
    /\ replies = <<>> /\ outbox = <<>> /\ applied = <<>>
    /\ updateTimer = 0
    /\ timers = {}
    /\ courgette = EmptyText
    /\ today \in Dates
    /\ output = compileToOpenFisca(EmptyText, today)
    /\ cpc = "unused" /\ cidx = 0
    /\ scenarios = <<>> /\ currentScenario = <<>> /\ currentSchedule = <<>>
    /\ variables = <<>> /\ conditions = <<>> /\ outcomes = <<>>
    /\ inConditions = TRUE /\ scheduleMap = <<>> /\ results = <<>>
    /\ ValidatorUnused /\ GuessUnused

\* a timeout set without clearing the one before
SetTimeoutOnly(handle) ==
    /\ timers' = timers \cup {handle}
    /\ updateTimer' = handle

\* editor.js 184-185: clearTimeout(updateTimer); updateTimer = setTimeout(...)
SetTimeout(handle) ==
    /\ timers' = (timers \ {updateTimer}) \cup {handle}
    /\ updateTimer' = handle

\* editor.js 183-186, called on every text-change (291): the user has changed
\* the text
scheduleUpdate ==
    /\ edits < MaxEdits
    /\ edits' = edits + 1
    /\ \E text \in EditorTexts : text # editorText /\ editorText' = text
    /\ SetTimeout(edits + 1)
    /\ UNCHANGED <<inbox, posted, replies, outbox, applied, wordCount>>
    /\ UNCHANGED <<valVars, compVars, guessVars>>

\* a pending timeout fires: updateEditor on the text the editor holds
TimerFires ==
    /\ \E handle \in timers : timers' = timers \ {handle}
    /\ UpdateEditor(editorText, today)
    /\ UNCHANGED <<editorText, edits, updateTimer>>

\* editor.js 282-288: loadExample sets the text, which raises text-change
\* (scheduleUpdate), and calls updateEditor at once
loadExample ==
    /\ edits < MaxEdits
    /\ edits' = edits + 1
    /\ \E text \in EditorTexts \ {EmptyText} :
          /\ editorText' = text
          /\ UpdateEditor(text, today)
    /\ SetTimeout(edits + 1)

\* editor.js 213-232: the page's listener shows the errors of the reply
ShowReply ==
    /\ outbox # <<>>
    /\ LET reply == Head(outbox)
       IN  applied' = Append(applied,
                [req |-> reply.req, errors |-> reply.errors,
                 status |-> IF Len(reply.errors) = 0 THEN "valid" ELSE "error",
                 panel |-> [i \in DOMAIN reply.errors |->
                              <<reply.errors[i].line, reply.errors[i].message>>]])
    /\ outbox' = Tail(outbox)
    /\ UNCHANGED <<inbox, posted, replies, editorText, edits, updateTimer, timers,
                   wordCount>>
    /\ UNCHANGED <<valVars, compVars, guessVars>>

EditorNext ==
    \/ scheduleUpdate
    \/ TimerFires
    \/ loadExample
    \/ HandleMessage
    \/ ShowReply

SpecEditor == EditorInit /\ [][EditorNext]_vars

\* C17: the replies are shown in the order their requests were posted: a
\* reply shown after another answers a later request.
C17_RepliesShownInRequestOrder ==
    \A i \in DOMAIN applied : \A j \in DOMAIN applied :
        i < j => applied[i].req < applied[j].req

\* two replies with different errors have been shown while the reply to a
\* third request is waiting
C17_Witness ==
    /\ Len(applied) = 2
    /\ applied[1].errors # applied[2].errors
    /\ applied[2].status = "error"
    /\ posted = 3
    /\ outbox # <<>>

----------------------------------------------------------------------------
(* The boolean structure of the eligibility formula *)

\* the values the formula is run on
LogicEnvs == [{"age", "income"} -> {0, 1000}]

\* line j is `<keyword> v < n`
IsLessThanLine(j) ==
    LET t == courgette[j].toks
    IN  Len(t) = 4 /\ IsIdentifier(t[2]) /\ t[3] = "<" /\ IsDigits(t[4])

\* what the comparison of line j says about env
LessThanHolds(j, env) ==
    LET t == courgette[j].toks IN env[t[2]] < Num(t[4])

\* the scenario headed at h has the conditions `When A` / `Or B`
IsOrPair(h) ==
    /\ ConditionPhase(h) = {h + 1, h + 2}
    /\ IsLessThanLine(h + 1) /\ courgette[h + 1].toks[1] = "When"
    /\ IsLessThanLine(h + 2) /\ courgette[h + 2].toks[1] = "Or"

\* the scenario headed at h has the conditions `When any of these are
\* true:` / `- A` / `- B`
IsAnyGroup(h) ==
    /\ ConditionPhase(h) = {h + 1, h + 2, h + 3}
    /\ courgette[h + 1].toks = <<"When", "any", "of", "these", "are", "true:">>
    /\ IsLessThanLine(h + 2) /\ courgette[h + 2].toks[1] = "-"
    /\ IsLessThanLine(h + 3) /\ courgette[h + 3].toks[1] = "-"

\* compiler.js 734-752 as run by Python: the value the eligibility formula
\* of the scenario headed at h returns on env
EligibleValue(h, env) ==
    LET cs == EligibleDecl(h).conditions
    IN  \A c \in DOMAIN cs : PyCond(cs[c], env) = "True"

\* C18: the eligibility formula follows the boolean structure of the source:
\* a scenario `When A` / `Or B`, and a scenario whose conditions are the
\* items A, B of an `any of these are true:` group, is eligible exactly when
\* A or B holds (so when A alone holds).
C18_FormulaFollowsBooleanStructure ==
    Returned =>
        \A h \in CScenarioHeaders : \A env \in LogicEnvs :
            /\ IsOrPair(h) =>
                  (EligibleValue(h, env)
                     <=> (LessThanHolds(h + 1, env) \/ LessThanHolds(h + 2, env)))
            /\ IsAnyGroup(h) =>
                  (EligibleValue(h, env)
                     <=> (LessThanHolds(h + 2, env) \/ LessThanHolds(h + 3, env)))

----------------------------------------------------------------------------
(* Where a scenario ends *)

IsBlockHeader(j) ==
    courgette[j].toks[1] \in {"Scenario:", "Definition:", "Schedule:"}

NamedScenarioHeaders ==
    {h \in DOMAIN courgette :
        courgette[h].toks[1] = "Scenario:" /\ Len(courgette[h].toks) = 2}

\* the lines of the block headed at h: up to the next header of any kind
ScenarioBlock(h) ==
    {j \in (h + 1)..Len(courgette) : \A m \in (h + 1)..j : ~IsBlockHeader(m)}

\* what the call has saved for the scenario headed at h
SavedScenario(h) ==
    scenarios[Cardinality({g \in NamedScenarioHeaders : g <= h})]

\* the lines of the block headed at h that are conditions: before the first
\* Then, and not a group opener or schedule entry
BlockConditions(h) ==
    {j \in ScenarioBlock(h) :
        /\ courgette[j].toks[1] \in {"When", "Given", "And", "Or", "-"}
        /\ ~HasColon(courgette[j].toks)
        /\ \A m \in (h + 1)..j : courgette[m].toks[1] # "Then"}

\* the lines of the block headed at h that are outcomes
BlockOutcomes(h) ==
    {j \in ScenarioBlock(h) :
        \/ courgette[j].toks[1] = "Then"
        \/ /\ courgette[j].toks[1] = "And"
           /\ \E m \in (h + 1)..(j - 1) : courgette[m].toks[1] = "Then"}

\* C19: a Definition: or Schedule: header closes the scenario before it: the
\* conditions and outcomes saved for a scenario are those of the lines
\* between its header and the next header of any kind.
C19_HeaderClosesScenario ==
    Returned =>
        \A h \in NamedScenarioHeaders :
            /\ Len(SavedScenario(h).conditions) = Cardinality(BlockConditions(h))
            /\ Len(SavedScenario(h).outcomes) = Cardinality(BlockOutcomes(h))

\* the same, for the scenarios that no Definition: or Schedule: header follows
\* before the next Scenario: header
C19_HoldsWithoutOtherHeaders ==
    Returned =>
        \A h \in NamedScenarioHeaders :
            (\A j \in (h + 1)..CExtentEnd(h) : ~IsBlockHeader(j)) =>
                /\ Len(SavedScenario(h).conditions) = Cardinality(BlockConditions(h))
                /\ Len(SavedScenario(h).outcomes) = Cardinality(BlockOutcomes(h))

----------------------------------------------------------------------------
(* The validator and the compiler on the same scenario lines *)

ClassifyLines ==
    { L(<<"Scenario:", "S">>),
      L(<<"When", "age", "<", "5">>),
      L(<<"Then", "x", "is", "eligible">>),
      L(<<"Then", "rate", "is", "determined", "by", "N">>),
      L(<<"And", "rate", "is", "determined", "by", "N">>) }

ClassifyDocuments == UNION {[1..n -> ClassifyLines] : n \in 1..MaxLines}

SpecValidatorClassify ==
    ValidatorStart(ClassifyDocuments) /\ [][ValidatorNext]_vars

\* the `And` lines that follow a Then line of their scenario
AndAfterThen ==
    {j \in DOMAIN lines :
        /\ lines[j].toks[1] = "And"
        /\ \E h \in 1..(j - 1) :
              /\ lines[h].toks[1] = "Scenario:"
              /\ \A m \in (h + 1)..j : lines[m].toks[1] # "Scenario:"
              /\ \E m \in (h + 1)..(j - 1) : lines[m].toks[1] = "Then"}

\* the outcomes compileToOpenFisca has collected for the scenario it is in
\* after the first n lines
OutcomesAfter(n) == CompileLines(NewCompile, SubSeq(lines, 1, n)).outcomes

\* compiler.js 883-909: line j is added to the outcomes, as a reference to
\* a schedule
CompilerTakesAsOutcome(j) ==
    /\ Len(OutcomesAfter(j)) = Len(OutcomesAfter(j - 1)) + 1
    /\ Last(OutcomesAfter(j)).type = "schedule"

\* the messages of validateCondition
ConditionMessages == {MsgNoComparison, MsgQuotes, MsgBetween}

MessagesOn(j) == {errors[i].message : i \in {k \in DOMAIN errors : errors[k].line = j}}

\* C20: an `And <phrase>` line after the scenario's first Then is an outcome
\* for the compiler and for the validator: the validator applies the outcome
\* rules to it (a reference to an undeclared schedule is reported) and not
\* the condition rules.
C20_AndAfterThenIsOutcomeForBoth ==
    Done =>
        \A j \in AndAfterThen :
            /\ CompilerTakesAsOutcome(j)
            /\ MsgNoSchedule \in MessagesOn(j)
            /\ MessagesOn(j) \cap ConditionMessages = {}

\* the same for the Then lines: both take them as outcomes
C20_ThenIsOutcomeForBoth ==
    Done =>
        \A j \in DOMAIN lines :
            (/\ lines[j].toks = <<"Then", "rate", "is", "determined", "by", "N">>
             /\ \E h \in 1..(j - 1) : lines[h].toks[1] = "Scenario:") =>
                /\ CompilerTakesAsOutcome(j)
                /\ MsgNoSchedule \in MessagesOn(j)
                /\ MessagesOn(j) \cap ConditionMessages = {}

----------------------------------------------------------------------------
(* parseCondition on the natural-language comparison phrases *)

\* the comparison phrases of compiler.js 456-466, and two in another case
ComparisonPhrases ==
    { <<"is", "less", "than">>, <<"is", "greater", "than">>,
      <<"is", "more", "than">>, <<"is", "at", "least">>,
      <<"is", "no", "less", "than">>, <<"is", "at", "most">>,
      <<"is", "no", "more", "than">>, <<"is", "equal", "to">>,
      <<"is", "not", "equal", "to">>, <<"is", "not">>, <<"is">>,
      <<"Is", "less", "than">>, <<"IS", "NO", "MORE", "THAN">> }

PhraseLines == { L(<<"When", "age">> \o p \o <<"24">>) : p \in ComparisonPhrases }

\* a scenario header followed by conditions
PhraseDocuments ==
    UNION {{ <<L(<<"Scenario:", "S">>)>> \o d : d \in [1..n -> PhraseLines] } :
              n \in 1..(MaxCompileLines - 1)}

SpecCompilePhrases == CompileStart(PhraseDocuments) /\ [][CompilerNext]_vars

\* the operator a comparison phrase stands for
CanonicalOperator(p) ==
    LET q == [i \in DOMAIN p |-> Lower(p[i])]
    IN  CASE q \in {<<"is", "less", "than">>} -> "<"
          [] q \in {<<"is", "greater", "than">>, <<"is", "more", "than">>} -> ">"
          [] q \in {<<"is", "at", "least">>, <<"is", "no", "less", "than">>} -> ">="
          [] q \in {<<"is", "at", "most">>, <<"is", "no", "more", "than">>} -> "<="
          [] q \in {<<"is", "equal", "to">>, <<"is">>} -> "=="
          [] q \in {<<"is", "not", "equal", "to">>, <<"is", "not">>} -> "!="

\* the phrase of the condition line j
PhraseOfLine(j) == SubSeq(courgette[j].toks, 3, Len(courgette[j].toks) - 1)

\* C21: parseCondition returns, for `age <phrase> 24`, the variable, the
\* canonical operator of the phrase as one token, and the number.
C21_PhraseBecomesCanonicalOperator ==
    Returned =>
        \A j \in 2..Len(courgette) :
            scenarios[1].conditions[j - 1]
                = <<"age", CanonicalOperator(PhraseOfLine(j)), "24">>

\* the same for the phrases that do not stand for <= or >=
C21_HoldsExceptOrEqual ==
    Returned =>
        \A j \in 2..Len(courgette) :
            CanonicalOperator(PhraseOfLine(j)) \notin {"<=", ">="} =>
                scenarios[1].conditions[j - 1]
                    = <<"age", CanonicalOperator(PhraseOfLine(j)), "24">>

----------------------------------------------------------------------------
(* From conditions to outcomes *)

TransitionLines ==
    { L(<<"Scenario:", "S">>),
      L(<<"Schedule:", "N">>),
      L(<<"When", "age", "<", "24">>),
      L(<<"And", "income", "<", "100">>),
      L(<<"Or", "income", "<", "100">>),
      L(<<"-", "age", "<", "24">>),
      L(<<"Then", "x", "is", "eligible">>) }

TransitionDocuments ==
    UNION {[1..n -> TransitionLines] : n \in 1..MaxCompileLines}

SpecCompileTransition ==
    CompileStart(TransitionDocuments) /\ [][CompilerNext]_vars

\* the parse loop handles the line toks in this step
HandlesLine(toks) ==
    /\ cpc = "parse" /\ cpc' = "parse"
    /\ cidx' = cidx + 1
    /\ courgette[cidx + 1].toks = toks

\* C22: a scenario goes from conditions to outcomes once: while it has an
\* outcome the scan is not in condition mode, and a line handled then adds no
\* condition and leaves the mode, unless it is a Scenario: header.
C22_SingleTransitionPoint ==
    /\ [](outcomes # <<>> => ~inConditions)
    /\ [][\A line \in TransitionLines :
            (HandlesLine(line.toks) /\ ~inConditions
               /\ ~IsHeader(line.toks, "Scenario:"))
              => (conditions' = conditions /\ ~inConditions')]_vars
    /\ [][\A line \in TransitionLines :
            (HandlesLine(line.toks) /\ IsHeader(line.toks, "Scenario:"))
              => (inConditions' /\ conditions' = <<>> /\ outcomes' = <<>>)]_vars

\* a When, Or or list-item line has been handled after an outcome of its
\* scenario, which keeps its one condition
C22_Witness ==
    /\ cpc = "parse"
    /\ cidx = 4
    /\ courgette[cidx].toks[1] \in {"When", "Or", "-"}
    /\ courgette[cidx - 1].toks[1] = "Then"
    /\ Len(conditions) = 1
    /\ Len(outcomes) = 1
    /\ ~inConditions

----------------------------------------------------------------------------
(* Groups of list items in validateCourgette *)

GroupLines ==
    { L(<<>>),
      L(<<"Scenario:", "S">>),
      L(<<"When", "age", "<", "5">>),
      L(<<"When", "any", "of", "these", "are", "true:">>),
      L(<<"-", "age", "<", "5">>),
      L(<<"Then", "x", "is", "eligible">>) }

\* a scenario header and a group opener, followed by other lines
GroupDocuments ==
    UNION {{ <<L(<<"Scenario:", "S">>),
               L(<<"When", "any", "of", "these", "are", "true:">>)>> \o d :
                 d \in [1..n -> GroupLines] } : n \in 1..MaxLines}

SpecValidatorGroup == ValidatorStart(GroupDocuments) /\ [][ValidatorNext]_vars

\* a group is open after line n: an opener, followed by list items only
GroupOpenAfter(n) ==
    \E k \in 1..n :
        /\ IsOpenerLine(lines[k].toks)
        /\ \A m \in (k + 1)..n : IsListItem(lines[m].toks)

\* C23: in a scenario, list items are expected exactly from a group opener
\* until the next blank line, keyword line or header, and a list item outside
\* such a stretch gets the list-item error.
C23_GroupOpenUntilNextKeyword ==
    /\ pc = "second" => (expectingListItems <=> GroupOpenAfter(idx))
    /\ Done =>
          \A j \in DOMAIN lines :
              IsListItem(lines[j].toks) =>
                  (GroupOpenAfter(j - 1)
                     <=> ~\E i \in DOMAIN errors :
                            errors[i].line = j /\ errors[i].message = MsgListItem)

\* the same with a group closed by a blank line or a Then line only
GroupOpenUntilBlankOrThen(n) ==
    \E k \in 1..n :
        /\ IsOpenerLine(lines[k].toks)
        /\ \A m \in (k + 1)..n :
              lines[m].toks # <<>> /\ lines[m].toks[1] # "Then"

C23_GroupOpenUntilBlankOrThen ==
    /\ pc = "second" => (expectingListItems <=> GroupOpenUntilBlankOrThen(idx))
    /\ Done =>
          \A j \in DOMAIN lines :
              IsListItem(lines[j].toks) =>
                  (GroupOpenUntilBlankOrThen(j - 1)
                     <=> ~\E i \in DOMAIN errors :
                            errors[i].line = j /\ errors[i].message = MsgListItem)

----------------------------------------------------------------------------
(* The outcome phrases of the validator and of the parser *)

OutcomePhrases ==
    { <<"x", "is", "eligible">>,
      <<"payment", "is", "$1000", "per", "fortnight">>,
      <<"base", "rate", "is", "$200">>,
      <<"rate", "is", "determined", "by", "N">>,
      <<"payment", "reduces", "by", "50", "cents", "per", "dollar", "over", "$100">>,
      <<"reduces", "by", "50", "cents", "per", "dollar">>,
      <<"payment", "cuts", "out", "at", "$1000">>,
      <<"foo", "bar">> }

OutcomeLines == { L(<<"Then">> \o o) : o \in OutcomePhrases }

\* a scenario with a condition, followed by outcome lines
OutcomeDocuments ==
    UNION {{ <<L(<<"Scenario:", "S">>), L(<<"When", "age", "<", "5">>)>> \o d :
                 d \in [1..n -> OutcomeLines] } : n \in 1..MaxLines}

SpecValidatorOutcomes ==
    ValidatorStart(OutcomeDocuments) /\ [][ValidatorNext]_vars

\* validateOutcome warned that the outcome of line j is not recognised
WarnsUnknown(j) ==
    \E i \in DOMAIN errors :
        /\ errors[i].line = j
        /\ errors[i].message = MsgUnknownOutcome
        /\ errors[i].severity = "warning"

\* C24: validateOutcome warns 'Unrecognised outcome format' about an outcome
\* phrase exactly when parseOutcome returns type 'unknown' for it.
C24_SameOutcomePhrases ==
    Done =>
        \A j \in 3..Len(lines) :
            WarnsUnknown(j) <=> parseOutcome(Tail(lines[j].toks)).type = "unknown"

\* the phrases only validateOutcome has a pattern for
ValidatorOnlyPhrases ==
    { <<"base", "rate", "is", "$200">>,
      <<"reduces", "by", "50", "cents", "per", "dollar">>,
      <<"payment", "cuts", "out", "at", "$1000">> }

\* the same for the other phrases
C24_HoldsOnSharedPatterns ==
    Done =>
        \A j \in 3..Len(lines) :
            Tail(lines[j].toks) \notin ValidatorOnlyPhrases =>
                (WarnsUnknown(j) <=> parseOutcome(Tail(lines[j].toks)).type = "unknown")

----------------------------------------------------------------------------
(* The base amount taken from a schedule *)

EntryLines ==
    { L(<<"When", "single:", "$100">>),
      L(<<"When", "couple:", "$200">>),
      L(<<"When", "age", "<", "5:", "$100">>),
      L(<<"When", "age", ">", "5:", "$200">>),
      L(<<"When", "age", "is", "less", "than", "5:", "$1000">>) }

\* a schedule with entries, and a scenario that takes its rate from it
ScheduleDocuments ==
    UNION {{ <<L(<<"Schedule:", "N">>)>> \o d
               \o <<L(<<"Scenario:", "S">>),
                    L(<<"Then", "rate", "is", "determined", "by", "N">>)>> :
                 d \in [1..n -> EntryLines] } : n \in 1..(MaxCompileLines - 1)}

SpecCompileSchedule == CompileStart(ScheduleDocuments) /\ [][CompilerNext]_vars

\* the people the payment formula is run on
SchedulePersons == [age : {0, 5, 24}, family_situation : {"single", "couple"}]

\* what person('v', period) returns for a schedule parameter: the
\* default_value of the class of that name, the last one when the output
\* declares the name more than once
ParameterValue(name) ==
    LET S == {i \in DOMAIN output :
                output[i].kind = "schedule_parameter" /\ output[i].name = name}
    IN  output[CHOOSE i \in S : \A j \in S : j <= i].default_value

\* the test of a branch, as run by Python on the person
PyTest(test, person) ==
    IF test[1].w = "family_situation"
    THEN person.family_situation = test[3].w
    ELSE CASE test[2].w = "<" -> person.age < Num(test[3].w)
           [] test[2].w = ">" -> person.age > Num(test[3].w)

RECURSIVE PyBranches(_, _)
\* compiler.js 789-803 as run by Python: if / elif ... / else: base_amount = 0
PyBranches(branches, person) ==
    IF branches = <<>> THEN 0
    ELSE IF PyTest(Head(branches).test, person)
    THEN ParameterValue(Head(branches).variable)
    ELSE PyBranches(Tail(branches), person)

\* the condition of the entry written on line j holds for the person
EntryHolds(j, person) ==
    LET t == courgette[j].toks
    IN  CASE t[2] = "single:" -> person.family_situation = "single"
          [] t[2] = "couple:" -> person.family_situation = "couple"
          [] t[3] = "<" -> person.age < 5
          [] t[3] = ">" -> person.age > 5
          [] t[3] = "is" -> person.age < 5

RECURSIVE FirstEntryAmount(_, _, _)
\* the amount of the first entry on lines from..to whose condition holds, 0
\* when none holds
FirstEntryAmount(from, to, person) ==
    IF from > to THEN 0
    ELSE IF EntryHolds(from, person) THEN Num(Last(courgette[from].toks))
    ELSE FirstEntryAmount(from + 1, to, person)

SchedulePayment == output[Len(output)]

\* C25: the payment formula of a scenario that takes its rate from a
\* schedule gives the amount of the first entry, in declaration order, whose
\* condition holds, and 0 when none holds; every variable it reads for an
\* entry is declared by generateScheduleParameters.
C25_FirstMatchingEntry ==
    Returned =>
        /\ SchedulePayment.kind = "payment"
        /\ SchedulePayment.base.type = "schedule"
        /\ \A b \in DOMAIN SchedulePayment.base.branches :
              \E i \in DOMAIN output :
                  /\ output[i].kind = "schedule_parameter"
                  /\ output[i].name = SchedulePayment.base.branches[b].variable
        /\ \A person \in SchedulePersons :
              PyBranches(SchedulePayment.base.branches, person)
                = FirstEntryAmount(2, Len(courgette) - 2, person)

\* no two entries of the schedule have conditions that give the same name
DistinctEntryNames ==
    \A i, j \in DOMAIN output :
        (/\ i # j
         /\ output[i].kind = "schedule_parameter"
         /\ output[j].kind = "schedule_parameter") => output[i].name # output[j].name

\* the same when the entries give different names
C25_HoldsForDistinctNames ==
    (Returned /\ DistinctEntryNames) =>
        /\ SchedulePayment.kind = "payment"
        /\ SchedulePayment.base.type = "schedule"
        /\ \A b \in DOMAIN SchedulePayment.base.branches :
              \E i \in DOMAIN output :
                  /\ output[i].kind = "schedule_parameter"
                  /\ output[i].name = SchedulePayment.base.branches[b].variable
        /\ \A person \in SchedulePersons :
              PyBranches(SchedulePayment.base.branches, person)
                = FirstEntryAmount(2, Len(courgette) - 2, person)

----------------------------------------------------------------------------
(* When a payment formula is written, and what it returns for the ineligible *)

PaymentLines ==
    { L(<<"Scenario:", "S">>),
      L(<<"Scenario:", "T">>),
      L(<<"When", "age", "<", "24">>),
      L(<<"Then", "x", "is", "eligible">>),
      L(<<"Then", "payment", "is", "$1000", "per", "fortnight">>),
      L(<<"Then", "rate", "is", "determined", "by", "N">>),
      L(<<"Then", "payment", "reduces", "by", "50", "cents", "per", "dollar",
          "over", "$200">>),
      L(<<"Then", "foo", "bar">>) }

PaymentDocuments == UNION {[1..n -> PaymentLines] : n \in 1..MaxCompileLines}

SpecCompilePayment == CompileStart(PaymentDocuments) /\ [][CompilerNext]_vars

\* line j is a fixed payment, a schedule reference or a reduction
IsPaymentAffectingLine(j) ==
    LET t == courgette[j].toks
    IN  /\ t[1] = "Then"
        /\ \/ SubSeq(t, 2, 3) = <<"payment", "is">>
           \/ SubSeq(t, 2, 3) = <<"rate", "is">>
           \/ SubSeq(t, 2, 3) = <<"payment", "reduces">>

HasPaymentAffectingOutcome(h) ==
    \E j \in (h + 1)..CExtentEnd(h) : IsPaymentAffectingLine(j)

\* the declaration after the <scenario>_eligible class of the scenario
\* headed at h is its <scenario>_payment class
HasPaymentClass(h) ==
    LET e == EligibleAt(ScenarioNumber(h))
    IN  /\ e < Len(output)
        /\ output[e + 1].kind = "payment"
        /\ output[e + 1].className = output[e].className

\* compiler.js 768-823 as run by Python, in hundredths: the statements of
\* the body in their order
PyPayment(d, eligible, income) ==
    LET guard == {i \in DOMAIN d.body : d.body[i] = "if not eligible: return 0"}
        base == {i \in DOMAIN d.body : d.body[i] = "base_amount"}
        guarded == \E g \in guard : \A b \in base : g < b
        amount == IF d.base.type = "fixed" THEN d.base.amount * 100 ELSE 0
    IN  IF guarded /\ ~eligible THEN 0
        ELSE PyReductions(amount, d.reductions, income)

\* C26: a scenario gets a <scenario>_payment formula exactly when it has a
\* fixed payment, a schedule reference or a reduction among its outcomes, and
\* the formula reads the scenario's own eligibility and returns 0 when it is
\* false, whatever the base amount and the reductions.
C26_PaymentFormulaIffPaymentOutcome ==
    Returned =>
        /\ \A h \in CScenarioHeaders :
              HasPaymentClass(h) <=> HasPaymentAffectingOutcome(h)
        /\ Cardinality({i \in DOMAIN output : output[i].kind = "payment"})
             = Cardinality({h \in CScenarioHeaders : HasPaymentAffectingOutcome(h)})
        /\ \A i \in DOMAIN output :
              output[i].kind = "payment" =>
                  /\ output[i - 1].kind = "eligible"
                  /\ output[i].eligibleRef = output[i - 1].className
                  /\ \A income \in Incomes : PyPayment(output[i], FALSE, income) = 0

\* a scenario whose only payment-affecting outcome is a reduction, after a
\* scenario with outcomes but none that affects a payment
C26_Witness ==
    /\ Returned
    /\ Len(courgette) = 4
    /\ courgette[1].toks = <<"Scenario:", "S">>
    /\ courgette[2].toks = <<"Then", "foo", "bar">>
    /\ courgette[3].toks = <<"Scenario:", "T">>
    /\ courgette[4].toks = <<"Then", "payment", "reduces", "by", "50", "cents",
                            "per", "dollar", "over", "$200">>
    /\ ~HasPaymentClass(1)
    /\ HasPaymentClass(3)
    /\ PyPayment(output[Len(output)], TRUE, 400) = 0
    /\ PyPayment(output[Len(output)], FALSE, 400) = 0

----------------------------------------------------------------------------
(* Outcomes after a group of conditions *)

ThenFirstOn(j) ==
    \E i \in DOMAIN errors : errors[i].line = j /\ errors[i].message = MsgThenFirst

\* C27: a Then line of a scenario whose conditions are a group opener and
\* its list items gets no 'Outcomes (Then) must follow conditions' error.
C27_GroupCountsAsConditions ==
    Done =>
        \A t \in 4..Len(lines) :
            (/\ IsThenLine(lines[t].toks)
             /\ \A m \in 3..(t - 1) : IsListItem(lines[m].toks))
                => ~ThenFirstOn(t)

\* the same for a Then line that follows an ordinary condition of its
\* scenario
C27_HoldsAfterOrdinaryCondition ==
    Done =>
        \A t \in 4..Len(lines) :
            (/\ IsThenLine(lines[t].toks)
             /\ \E m \in 3..(t - 1) :
                   /\ lines[m].toks = <<"When", "age", "<", "5">>
                   /\ \A k \in m..t : ~IsHeader(lines[k].toks, "Scenario:"))
                => ~ThenFirstOn(t)

----------------------------------------------------------------------------
(* The editor once the edits have stopped.  The browser runs every pending
   timeout and delivers every posted message: a timeout does not stay
   pending for ever, and a message does not stay at the head of the worker's
   or of the page's queue for ever. *)

\* the browser takes a pending timeout to run its callback (TimerFires)
TimeoutTaken == \E handle \in timers : timers' = timers \ {handle}

\* the worker takes the message at the head of its queue (HandleMessage)
WorkerMessageTaken == inbox # <<>> /\ inbox' = Tail(inbox)

\* the page takes the message at the head of its queue (ShowReply)
PageMessageTaken == outbox # <<>> /\ outbox' = Tail(outbox)

SpecEditorFair ==
    /\ EditorInit
    /\ [][EditorNext]_vars
    /\ WF_timers(TimeoutTaken)
    /\ WF_inbox(WorkerMessageTaken)
    /\ WF_outbox(PageMessageTaken)

\* the code pane and the error panel show the text the editor holds
Converged ==
    /\ output = compileToOpenFisca(editorText, today)
    /\ applied # <<>>
    /\ Last(applied).errors = validateCourgette(editorText)
    /\ wordCount = WordsOf(editorText)

----------------------------------------------------------------------------
(* The names an eligibility formula reads, and the variables declared *)

ClosureLines ==
    { L(<<"Scenario:", "S">>),
      L(<<"When", "age", "<", "24">>),
      L(<<"When", "income", "is", "less", "than", "100">>),
      L(<<"When", "payment", "<", "100">>),
      L(<<"When", "x", "is", "\"a\"">>),
      L(<<"Then", "x", "is", "eligible">>) }

ClosureDocuments == UNION {[1..n -> ClosureLines] : n \in 1..MaxCompileLines}

SpecCompileClosure == CompileStart(ClosureDocuments) /\ [][CompilerNext]_vars

DeclaredVariables ==
    {output[i].name : i \in {k \in DOMAIN output : output[k].kind = "variable"}}

ReadVariables ==
    UNION {{output[i].usedVars[k] : k \in DOMAIN output[i].usedVars} :
              i \in {k \in DOMAIN output : output[k].kind = "eligible"}}

\* C30: every name that an eligibility formula reads with person('v',
\* period) is declared as a variable class in the same output.
C30_ReferencesAreDeclared ==
    Returned => ReadVariables \subseteq DeclaredVariables

\* the same for the documents without an excluded word or a quoted operand
\* in a condition
C30_HoldsForPlainConditions ==
    (Returned /\ \A j \in DOMAIN courgette :
                    courgette[j].toks[1] = "When"
                       => courgette[j].toks[2] \in {"age", "income"})
        => ReadVariables \subseteq DeclaredVariables

----------------------------------------------------------------------------
(* The range of the amount a payment formula returns *)

\* incomes below, at and above the thresholds, a negative one included
ReductionIncomes == Incomes \cup {0 - 100, 201}

\* the values base_amount can have before the reductions, in hundredths: the
\* fixed amount, 0 when there is no base, or whatever the schedule's
\* parameter holds
BaseAmounts(d) ==
    IF d.base.type = "fixed" THEN {d.base.amount * 100}
    ELSE IF d.base.type = "schedule" THEN {0, 100 * 100, 1000 * 100}
    ELSE {0}

\* the running amount after the first k reductions
AmountAfter(d, B, k, income) ==
    PyReductions(B, SubSeq(d.reductions, 1, k), income)

PaymentDecls == {i \in DOMAIN output : output[i].kind = "payment"}

\* C29: for a base amount B >= 0 and any income the amount the payment
\* formula returns is between 0 and B; no reduction raises the running
\* amount, a reduction whose threshold is not exceeded leaves it as it is,
\* and none takes it below zero.
C29_AmountBetweenZeroAndBase ==
    Returned =>
        \A i \in PaymentDecls : \A B \in BaseAmounts(output[i]) :
            \A income \in ReductionIncomes :
                /\ B >= 0
                /\ \A r \in DOMAIN output[i].reductions :
                      /\ output[i].reductions[r].cents >= 0
                      /\ output[i].reductions[r].threshold >= 0
                /\ 0 <= PyPayment(output[i], TRUE, income)
                /\ PyPayment(output[i], TRUE, income)
                     <= (IF output[i].base.type = "fixed" THEN B ELSE 0)
                /\ \A k \in DOMAIN output[i].reductions :
                      /\ 0 <= AmountAfter(output[i], B, k, income)
                      /\ AmountAfter(output[i], B, k, income)
                           <= AmountAfter(output[i], B, k - 1, income)
                      /\ income <= output[i].reductions[k].threshold
                           => AmountAfter(output[i], B, k, income)
                                = AmountAfter(output[i], B, k - 1, income)
                /\ AmountAfter(output[i], B, Len(output[i].reductions), income) <= B

\* a fixed payment of $1000 with two reductions: untouched at income 100,
\* lowered but positive at 400, and held at zero at 3000 where the
\* subtraction alone would go below it
C29_Witness ==
    /\ Returned
    /\ \E i \in PaymentDecls :
          /\ output[i].base = [type |-> "fixed", amount |-> 1000]
          /\ Len(output[i].reductions) = 2
          /\ PyPayment(output[i], TRUE, 100) = 100000
          /\ PyPayment(output[i], TRUE, 400) > 0
          /\ PyPayment(output[i], TRUE, 400) < 100000
          /\ PyPayment(output[i], TRUE, 3000) = 0
          /\ \E r \in 1..2 :
                100000 - (3000 - output[i].reductions[r].threshold)
                            * output[i].reductions[r].cents < 0

====
